---- MODULE Spec2Model ----
(***************************************************************************)
(* Model of the ERP backend's entity controllers (employees, users,        *)
(* projects, tasks): the validation / normalization / referential and       *)
(* uniqueness checks / persistence pipeline of each HTTP handler over the   *)
(* MongoDB collections.                                                     *)
(*                                                                          *)
(* JavaScript values.  A request body is a function from the names of the   *)
(* fields it carries to their values (a field that is not in the DOMAIN is  *)
(* undefined).  Strings are sequences of one-character strings.  A value    *)
(* that may be a number or a string is tagged: [num |-> n], [str |-> s],    *)
(* [nan |-> 1].  A date value is [date |-> t] (a Date object), [ds |-> t]   *)
(* (a string that parses to time t) or [bad |-> 1] (a string that does not  *)
(* parse).  A boolean is [bool |-> b].                                      *)
(***************************************************************************)
EXTENDS Integers, Sequences, FiniteSets, TLC

VARIABLES
  companies,   \* Company collection: the set of stored company ids
  companyUsers, \* CompanyUser collection: a set of documents
  fleet,       \* FleetTask and FleetTaskPassenger collections and the requests in flight
  wizard,      \* the state of JsCreateTaskPage and its pending continuations
  materials,   \* Material collection: a set of documents
  users,       \* User collection: a set of documents
  employees,   \* Employee collection: a set of documents
  projects,    \* Project collection: a set of documents
  tasks,       \* Task collection: a set of documents
  now,         \* the server clock (new Date())
  res,         \* the response of the last handled request
  reqs,        \* requests in flight (concurrent create handlers)
  taskIdIndex, \* the Task collection has a unique index on id
  hist         \* history: ids removed / assigned so far (ghost)

vars == <<companies, companyUsers, fleet, wizard, materials, users, employees, projects, tasks, now, res, reqs, taskIdIndex, hist>>

-----------------------------------------------------------------------------
(* Bounds of the model *)

MaxId == 2
MaxTime == 2
MaxLen == 3

-----------------------------------------------------------------------------
(* Strings *)

LowerChars == <<"a","b","c","d","e","f","g","h","i","j","k","l","m",
                "n","o","p","q","r","s","t","u","v","w","x","y","z">>
UpperChars == <<"A","B","C","D","E","F","G","H","I","J","K","L","M",
                "N","O","P","Q","R","S","T","U","V","W","X","Y","Z">>
DigitChars == <<"0","1","2","3","4","5","6","7","8","9">>

IsSpace(c) == c = " "
IsDigit(c) == \E i \in 1..10 : DigitChars[i] = c
DigitVal(c) == (CHOOSE i \in 1..10 : DigitChars[i] = c) - 1

UpperChar(c) == IF \E i \in 1..26 : LowerChars[i] = c
                THEN UpperChars[CHOOSE i \in 1..26 : LowerChars[i] = c]
                ELSE c
LowerChar(c) == IF \E i \in 1..26 : UpperChars[i] = c
                THEN LowerChars[CHOOSE i \in 1..26 : UpperChars[i] = c]
                ELSE c

toUpperCase(s) == [i \in 1..Len(s) |-> UpperChar(s[i])]
toLowerCase(s) == [i \in 1..Len(s) |-> LowerChar(s[i])]

RECURSIVE TrimLeft(_)
TrimLeft(s) == IF s # <<>> /\ IsSpace(Head(s)) THEN TrimLeft(Tail(s)) ELSE s

RECURSIVE TrimRight(_)
TrimRight(s) == IF s # <<>> /\ IsSpace(s[Len(s)])
                THEN TrimRight(SubSeq(s, 1, Len(s) - 1)) ELSE s

\* String.prototype.trim
trim(s) == TrimRight(TrimLeft(s))

\* s.replace(/\s+/g, ' '): every run of whitespace becomes one space
RECURSIVE CollapseSpaces(_)
CollapseSpaces(s) ==
  IF s = <<>> THEN <<>>
  ELSE IF IsSpace(Head(s))
       THEN <<" ">> \o CollapseSpaces(TrimLeft(s))
       ELSE <<Head(s)>> \o CollapseSpaces(Tail(s))

\* s.replace(/\D/g, ''): every non-digit is removed
RECURSIVE StripNonDigits(_)
StripNonDigits(s) ==
  IF s = <<>> THEN <<>>
  ELSE IF IsDigit(Head(s))
       THEN <<Head(s)>> \o StripNonDigits(Tail(s))
       ELSE StripNonDigits(Tail(s))

-----------------------------------------------------------------------------
(* Numbers and dates as JavaScript sees them *)

NumV(n) == [num |-> n]
StrV(s) == [str |-> s]
NaNV == [nan |-> 1]
BoolV(b) == [bool |-> b]
DateV(t) == [date |-> t]
DateStr(t) == [ds |-> t]
BadDate == [bad |-> 1]

IsNum(v) == "num" \in DOMAIN v
IsStr(v) == "str" \in DOMAIN v
IsNaNV(v) == "nan" \in DOMAIN v

Has(d, f) == f \in DOMAIN d

\* ToBoolean of a tagged value: 0, NaN and '' are falsy
TruthyV(v) ==
  IF IsNum(v) THEN v.num # 0
  ELSE IF IsStr(v) THEN v.str # <<>>
  ELSE IF "bool" \in DOMAIN v THEN v.bool
  ELSE IF IsNaNV(v) THEN FALSE
  ELSE TRUE

\* d.f is truthy, for a tagged field (undefined is falsy)
Truthy(d, f) == Has(d, f) /\ TruthyV(d[f])
\* d.f is truthy, for a plain string field
TruthyS(d, f) == Has(d, f) /\ d[f] # <<>>

AllDigits(s) == \A i \in 1..Len(s) : IsDigit(s[i])

RECURSIVE DecimalValue(_)
DecimalValue(s) ==
  IF s = <<>> THEN 0 ELSE 10 * DecimalValue(SubSeq(s, 1, Len(s) - 1)) + DigitVal(s[Len(s)])

RECURSIVE LeadingDigits(_)
LeadingDigits(s) ==
  IF s # <<>> /\ IsDigit(Head(s)) THEN <<Head(s)>> \o LeadingDigits(Tail(s)) ELSE <<>>

\* isNaN(v): Number(v) is NaN.  Number of a string ignores surrounding
\* whitespace; the empty string is 0.
isNaN(v) ==
  IF IsNum(v) THEN FALSE
  ELSE IF IsStr(v) THEN ~AllDigits(trim(v.str))
  ELSE IsNaNV(v)

\* a number of 22 digits or more: Number::toString writes it with an
\* exponent, as lead, a fraction and e+exp
ExpV(lead, exp) == [lead |-> lead, exp |-> exp]
IsExp(v) == "exp" \in DOMAIN v

RECURSIVE StripLeadingZeros(_)
StripLeadingZeros(s) ==
  IF Len(s) > 1 /\ Head(s) = "0" THEN StripLeadingZeros(Tail(s)) ELSE s

\* the number a string of digits denotes
NumberOfDigits(ds) ==
  LET sig == StripLeadingZeros(ds)
  IN  IF Len(sig) > 21 THEN ExpV(DigitVal(Head(sig)), Len(sig) - 1)
      ELSE NumV(DecimalValue(sig))

\* parseInt(v, 10) reads ToString(v): leading whitespace is skipped, then the
\* longest prefix of digits is read; none gives NaN.  An integer below 10^21
\* is written in full and read back; of a number written with an exponent
\* only the digit before the fraction is read.
parseInt(v) ==
  IF IsNum(v) THEN v
  ELSE IF IsExp(v) THEN NumV(v.lead)
  ELSE IF IsStr(v)
       THEN LET ds == LeadingDigits(TrimLeft(v.str))
            IN IF ds = <<>> THEN NaNV ELSE NumberOfDigits(ds)
  ELSE NaNV

\* null is [null |-> 1]
NullV == [null |-> 1]
IsNull(v) == "null" \in DOMAIN v
\* d.f is a truthy date value (undefined and null are falsy)
TruthyD(d, f) == Has(d, f) /\ ~IsNull(d[f])

\* new Date(v).getTime() is NaN
InvalidDate(v) == "bad" \in DOMAIN v
\* new Date(v), for a v that parses
NewDate(v) == IF "ds" \in DOMAIN v THEN DateV(v.ds) ELSE v
DateTime(v) == IF "ds" \in DOMAIN v THEN v.ds ELSE v.date

\* the object d with field f set to v
Put(d, f, v) == [g \in DOMAIN d \cup {f} |-> IF g = f THEN v ELSE d[g]]
\* the object d with field f changed by op when cond holds
Upd(d, f, cond, v) == IF cond THEN Put(d, f, v) ELSE d

\* if (d.f) d.f = parseInt(d.f, 10)
IntField(d, f) == IF Truthy(d, f) THEN Put(d, f, parseInt(d[f])) ELSE d
\* if (d.f) d.f = Op(d.f), for a string field
StrField(d, f, Op(_)) == IF TruthyS(d, f) THEN Put(d, f, Op(d[f])) ELSE d
\* if (!d.f) d.f = v, for a string field
DefaultStr(d, f, v) == IF TruthyS(d, f) THEN d ELSE Put(d, f, v)

-----------------------------------------------------------------------------
(* Messages.  A validator returns a list of messages; a handler answers      *)
(* with the list joined by ', ' (kept here as the list).                     *)

Err(text) == [e |-> text, n |-> 0]
ErrN(text, n) == [e |-> text, n |-> n]
When(cond, errs) == IF cond THEN errs ELSE <<>>
Contains(msgs, m) == \E i \in 1..Len(msgs) : msgs[i] = m

ACTIVE == <<"A","C","T","I","V","E">>
INACTIVE == <<"I","N","A","C","T","I","V","E">>
SUSPENDED == <<"S","U","S","P","E","N","D","E","D">>

MaxNameLength == 100
MaxCodeLength == 20

-----------------------------------------------------------------------------
(* employeeController.js: validators, normalizer and checks *)

EmployeeStatuses == {ACTIVE, INACTIVE, SUSPENDED}

validateEmployeeInput(data) ==
     When(~Truthy(data, "id"), <<Err("Employee ID is required")>>)
  \o When(~Truthy(data, "companyId"), <<Err("Company ID is required")>>)
  \o When(~TruthyS(data, "fullName"), <<Err("Full name is required")>>)
  \o When(~TruthyS(data, "employeeCode"), <<Err("Employee code is required")>>)
  \o When(Truthy(data, "id") /\ isNaN(data.id), <<Err("Employee ID must be a number")>>)
  \o When(Truthy(data, "companyId") /\ isNaN(data.companyId),
          <<Err("Company ID must be a number")>>)
  \o When(Truthy(data, "userId") /\ isNaN(data.userId), <<Err("User ID must be a number")>>)
  \o When(TruthyS(data, "fullName") /\ Len(trim(data.fullName)) = 0,
          <<Err("Full name cannot be empty")>>)
  \o When(TruthyS(data, "fullName") /\ Len(trim(data.fullName)) > MaxNameLength,
          <<Err("Full name must be less than 100 characters")>>)
  \o When(TruthyS(data, "employeeCode") /\ Len(trim(data.employeeCode)) > MaxCodeLength,
          <<Err("Employee code must be less than 20 characters")>>)
  \o When(TruthyS(data, "status") /\ data.status \notin EmployeeStatuses,
          <<Err("Status must be one of: ACTIVE, INACTIVE, SUSPENDED")>>)

\* the name trimmed, its inner blanks left as they are
SanitizeNameTrimOnly(s) == trim(s)

\* fullName.trim().replace(/\s+/g, ' ')
SanitizeName(s) == CollapseSpaces(trim(s))
\* phone.trim().replace(/\D/g, '')
SanitizePhone(s) == StripNonDigits(trim(s))

\* if (d.createdAt) d.createdAt = the date it parses to, or new Date()
EmployeeCreatedAt(d, t) ==
  IF Has(d, "createdAt")
  THEN Put(d, "createdAt", IF InvalidDate(d.createdAt) THEN DateV(t) ELSE NewDate(d.createdAt))
  ELSE d

\* t is the value of new Date() when the normalizer runs
normalizeEmployeeData(data, t) ==
  LET n1 == IntField(data, "id")
      n2 == IntField(n1, "companyId")
      n3 == IntField(n2, "userId")
      n4 == StrField(n3, "fullName", SanitizeName)
      n5 == StrField(n4, "employeeCode", trim)
      n6 == StrField(n5, "phone", SanitizePhone)
      n7 == StrField(n6, "jobTitle", trim)
      n8 == StrField(n7, "photoUrl", trim)
      n9 == StrField(n8, "status", toUpperCase)
  IN  EmployeeCreatedAt(n9, t)

\* the number a normalized field holds; 0 when undefined, null or NaN
NumOf(d, f) == IF Has(d, f) /\ IsNum(d[f]) THEN d[f].num ELSE 0
\* the string a field holds; empty when undefined
StrOf(d, f) == IF Has(d, f) THEN d[f] ELSE <<>>

\* Company.findOne({id}) / User.findOne({id}) find a document
CompanyExists(comps, companyId) == companyId \in comps
UserExists(usrs, userId) == \E u \in usrs : u.id = userId

\* the check with the company lookup left out
validateReferentialIntegrityUserOnly(comps, usrs, companyId, userId) ==
  LET errors == When(userId # 0 /\ ~UserExists(usrs, userId),
                     <<ErrN("User with ID does not exist", userId)>>)
  IN  [isValid |-> errors = <<>>, errors |-> errors]

\* userId = 0 is the default null
validateReferentialIntegrity(comps, usrs, companyId, userId) ==
  LET errors ==
           When(~CompanyExists(comps, companyId),
                <<ErrN("Company with ID does not exist", companyId)>>)
        \o When(userId # 0 /\ ~UserExists(usrs, userId),
                <<ErrN("User with ID does not exist", userId)>>)
  IN  [isValid |-> errors = <<>>, errors |-> errors]

\* the filter of the id query: {id: employeeId}, or {id: {$ne: exclude}}
\* when an id to exclude is given
IdQueryMatches(e, employeeId, excludeEmployeeId) ==
  IF excludeEmployeeId # 0 THEN e.id # excludeEmployeeId ELSE e.id = employeeId

\* the filter of the code query
CodeQueryMatches(e, employeeCode, excludeEmployeeId) ==
  /\ e.employeeCode = trim(employeeCode)
  /\ excludeEmployeeId # 0 => e.id # excludeEmployeeId

\* employeeCode = <<>> and excludeEmployeeId = 0 are the default nulls
checkEmployeeUniqueness(emps, employeeId, employeeCode, excludeEmployeeId) ==
  LET existingById == \E e \in emps : IdQueryMatches(e, employeeId, excludeEmployeeId)
      existingByCode == /\ employeeCode # <<>>
                        /\ \E e \in emps : CodeQueryMatches(e, employeeCode, excludeEmployeeId)
      errors ==
           When(existingById, <<ErrN("Employee with ID already exists", employeeId)>>)
        \o When(existingByCode, <<Err("Employee with code already exists")>>)
  IN  [isValid |-> errors = <<>>, errors |-> errors]

\* the email of the user with this id, or null (the empty string here)
getUserEmailById(usrs, userId) ==
  IF userId # 0 /\ UserExists(usrs, userId)
  THEN (CHOOSE u \in usrs : u.id = userId).email
  ELSE <<>>

\* the response data with the phone left out
transformEmployeeResponseNoPhone(employee, userEmail) ==
  [id |-> employee.id, companyId |-> employee.companyId, userId |-> employee.userId,
   employeeCode |-> employee.employeeCode, fullName |-> employee.fullName,
   phone |-> <<>>, jobTitle |-> employee.jobTitle, status |-> employee.status,
   photoUrl |-> employee.photoUrl, email |-> userEmail, createdAt |-> employee.createdAt]

\* the response data of an employee: transformEmployeeResponse(employee)
\* with email set by the handler
transformEmployeeResponse(employee, userEmail) ==
  [id |-> employee.id, companyId |-> employee.companyId, userId |-> employee.userId,
   employeeCode |-> employee.employeeCode, fullName |-> employee.fullName,
   phone |-> employee.phone, jobTitle |-> employee.jobTitle, status |-> employee.status,
   photoUrl |-> employee.photoUrl, email |-> userEmail, createdAt |-> employee.createdAt]

-----------------------------------------------------------------------------
(* The Employee collection.  A stored document holds plain values: numbers   *)
(* (0 for null) and strings (empty for null).                                *)

\* Mongoose's cast of a body value to the Number of the schema; NaN and
\* strings that are no number are not castable
Castable(v) == IsNum(v) \/ (IsStr(v) /\ v.str # <<>> /\ AllDigits(v.str))
CastNum(v) == IF IsNum(v) THEN v.num ELSE DecimalValue(v.str)

\* schema validation of an employee document (required fields, status enum)
EmployeeSchemaValid(doc) ==
  /\ doc.id # 0 /\ doc.companyId # 0
  /\ doc.fullName # <<>> /\ doc.employeeCode # <<>>
  /\ doc.status \in EmployeeStatuses

\* the unique indexes of the collection: id and employeeCode
EmployeeIndexOk(emps, doc) ==
  \A e \in emps : e.id # doc.id /\ e.employeeCode # doc.employeeCode

NoData == [x \in {} |-> 0]

\* the result of a handler: the response and the collection it leaves.
\* refOk / uniqOk: what the referential and the uniqueness check found;
\* wrote: save / findOneAndUpdate / findOneAndDelete was issued.
Outcome(status, message, data, store, refOk, uniqOk, wrote) ==
  [status |-> status, message |-> message, data |-> data, store |-> store,
   refOk |-> refOk, uniqOk |-> uniqOk, wrote |-> wrote]

\* the answer with the first of the messages only
ValidationFailedFirstOnly(errors, store) ==
  Outcome(400, <<errors[1]>>, NoData, store, TRUE, TRUE, FALSE)

\* res.status(400).json({ success: false, message: validationErrors.join(', ') });
\* the message is kept as the list that is joined
ValidationFailed(errors, store) ==
  Outcome(400, errors, NoData, store, TRUE, TRUE, FALSE)

\* createEmployee: the document handed to new Employee(...)
EmployeeData(n, t) ==
  [id |-> NumOf(n, "id"), companyId |-> NumOf(n, "companyId"),
   userId |-> NumOf(n, "userId"),
   employeeCode |-> StrOf(n, "employeeCode"), fullName |-> StrOf(n, "fullName"),
   phone |-> StrOf(n, "phone"), jobTitle |-> StrOf(n, "jobTitle"),
   photoUrl |-> StrOf(n, "photoUrl"),
   status |-> IF TruthyS(n, "status") THEN n.status ELSE ACTIVE,
   createdAt |-> IF Has(n, "createdAt") THEN DateTime(n.createdAt) ELSE t]

\* the handler answering a failed uniqueness check like a failed validation
createEmployeeConflictAs400(comps, usrs, emps, body, t) ==
  LET validationErrors == validateEmployeeInput(body)
      n == normalizeEmployeeData(body, t)
      referentialCheck ==
        validateReferentialIntegrity(comps, usrs, NumOf(n, "companyId"), NumOf(n, "userId"))
      uniquenessCheck ==
        checkEmployeeUniqueness(emps, NumOf(n, "id"), StrOf(n, "employeeCode"), 0)
      doc == EmployeeData(n, t)
  IN  IF validationErrors # <<>>
      THEN ValidationFailed(validationErrors, emps)
      ELSE IF ~referentialCheck.isValid
      THEN Outcome(400, referentialCheck.errors, NoData, emps,
                   FALSE, uniquenessCheck.isValid, FALSE)
      ELSE IF ~uniquenessCheck.isValid
      THEN Outcome(400, uniquenessCheck.errors, NoData, emps, TRUE, FALSE, FALSE)
      ELSE IF ~EmployeeSchemaValid(doc)
      THEN Outcome(400, <<Err("Data validation error")>>, NoData, emps, TRUE, TRUE, TRUE)
      ELSE IF ~EmployeeIndexOk(emps, doc)
      THEN Outcome(409, <<Err("Employee with this field already exists")>>, NoData, emps,
                   TRUE, TRUE, TRUE)
      ELSE Outcome(201, <<Err("Employee created successfully")>>,
                   transformEmployeeResponse(doc, getUserEmailById(usrs, doc.userId)),
                   emps \cup {doc}, TRUE, TRUE, TRUE)

\* the handler looking at the uniqueness check before the referential one
createEmployeeUniquenessFirst(comps, usrs, emps, body, t) ==
  LET validationErrors == validateEmployeeInput(body)
      n == normalizeEmployeeData(body, t)
      referentialCheck ==
        validateReferentialIntegrity(comps, usrs, NumOf(n, "companyId"), NumOf(n, "userId"))
      uniquenessCheck ==
        checkEmployeeUniqueness(emps, NumOf(n, "id"), StrOf(n, "employeeCode"), 0)
      doc == EmployeeData(n, t)
  IN  IF validationErrors # <<>>
      THEN ValidationFailed(validationErrors, emps)
      ELSE IF ~uniquenessCheck.isValid
      THEN Outcome(409, uniquenessCheck.errors, NoData, emps,
                   referentialCheck.isValid, FALSE, FALSE)
      ELSE IF ~referentialCheck.isValid
      THEN Outcome(400, referentialCheck.errors, NoData, emps, FALSE, TRUE, FALSE)
      ELSE IF ~EmployeeSchemaValid(doc)
      THEN Outcome(400, <<Err("Data validation error")>>, NoData, emps, TRUE, TRUE, TRUE)
      ELSE IF ~EmployeeIndexOk(emps, doc)
      THEN Outcome(409, <<Err("Employee with this field already exists")>>, NoData, emps,
                   TRUE, TRUE, TRUE)
      ELSE Outcome(201, <<Err("Employee created successfully")>>,
                   transformEmployeeResponse(doc, getUserEmailById(usrs, doc.userId)),
                   emps \cup {doc}, TRUE, TRUE, TRUE)


\* POST /api/employees
createEmployee(comps, usrs, emps, body, t) ==
  LET validationErrors == validateEmployeeInput(body)
      n == normalizeEmployeeData(body, t)
      referentialCheck ==
        validateReferentialIntegrity(comps, usrs, NumOf(n, "companyId"), NumOf(n, "userId"))
      uniquenessCheck ==
        checkEmployeeUniqueness(emps, NumOf(n, "id"), StrOf(n, "employeeCode"), 0)
      doc == EmployeeData(n, t)
  IN  IF validationErrors # <<>>
      THEN ValidationFailed(validationErrors, emps)
      ELSE IF ~referentialCheck.isValid
      THEN Outcome(400, referentialCheck.errors, NoData, emps,
                   FALSE, uniquenessCheck.isValid, FALSE)
      ELSE IF ~uniquenessCheck.isValid
      THEN Outcome(409, uniquenessCheck.errors, NoData, emps, TRUE, FALSE, FALSE)
      ELSE IF ~EmployeeSchemaValid(doc)
      THEN Outcome(400, <<Err("Data validation error")>>, NoData, emps, TRUE, TRUE, TRUE)
      ELSE IF ~EmployeeIndexOk(emps, doc)
      THEN Outcome(409, <<Err("Employee with this field already exists")>>, NoData, emps,
                   TRUE, TRUE, TRUE)
      ELSE Outcome(201, <<Err("Employee created successfully")>>,
                   transformEmployeeResponse(doc, getUserEmailById(usrs, doc.userId)),
                   emps \cup {doc}, TRUE, TRUE, TRUE)

\* GET /api/employees/:id
getEmployeeById(usrs, emps, employeeId) ==
  IF employeeId <= 0
  THEN Outcome(400, <<Err("Invalid employee ID. Must be a positive integer.")>>, NoData,
               emps, TRUE, TRUE, FALSE)
  ELSE IF ~\E e \in emps : e.id = employeeId
  THEN Outcome(404, <<ErrN("Employee with ID not found", employeeId)>>, NoData, emps,
               TRUE, TRUE, FALSE)
  ELSE LET employee == CHOOSE e \in emps : e.id = employeeId
       IN  Outcome(200, <<>>,
                   transformEmployeeResponse(employee, getUserEmailById(usrs, employee.userId)),
                   emps, TRUE, TRUE, FALSE)

\* the fields of the Employee schema an update can set, by kind
EmployeeNumFields == {"id", "companyId", "userId"}

\* every number of the update casts to the schema's Number
UpdateCastable(updateData) ==
  \A f \in EmployeeNumFields \cap DOMAIN updateData : Castable(updateData[f])

\* findOneAndUpdate's $set: every field the update carries replaces the
\* stored one, the others stay
ApplyEmployeeUpdate(doc, updateData) ==
  [f \in DOMAIN doc |->
     IF f \notin DOMAIN updateData THEN doc[f]
     ELSE IF f \in EmployeeNumFields THEN CastNum(updateData[f])
     ELSE IF f = "createdAt" THEN DateTime(updateData[f])
     ELSE updateData[f]]

\* runValidators: the validators of the paths the update sets
EmployeeUpdateValid(updateData, updated) ==
  /\ Has(updateData, "id") => updated.id # 0
  /\ Has(updateData, "companyId") => updated.companyId # 0
  /\ Has(updateData, "fullName") => updated.fullName # <<>>
  /\ Has(updateData, "employeeCode") => updated.employeeCode # <<>>
  /\ Has(updateData, "status") => updated.status \in EmployeeStatuses

\* PUT /api/employees/:id
updateEmployee(comps, usrs, emps, employeeId, body, t) ==
  LET updateData == normalizeEmployeeData(body, t)
      referentialCheck ==
        IF Truthy(updateData, "companyId") \/ Truthy(updateData, "userId")
        THEN validateReferentialIntegrity(comps, usrs,
               IF Truthy(updateData, "companyId") THEN NumOf(updateData, "companyId")
               ELSE employeeId,
               NumOf(updateData, "userId"))
        ELSE [isValid |-> TRUE, errors |-> <<>>]
      uniquenessCheck ==
        IF TruthyS(updateData, "employeeCode")
        THEN checkEmployeeUniqueness(emps, employeeId, updateData.employeeCode, employeeId)
        ELSE [isValid |-> TRUE, errors |-> <<>>]
      existing == {e \in emps : e.id = employeeId}
  IN  IF employeeId <= 0
      THEN Outcome(400, <<Err("Invalid employee ID. Must be a positive integer.")>>, NoData,
                   emps, TRUE, TRUE, FALSE)
      ELSE IF existing = {}
      THEN Outcome(404, <<ErrN("Employee with ID not found", employeeId)>>, NoData, emps,
                   referentialCheck.isValid, uniquenessCheck.isValid, FALSE)
      ELSE IF ~referentialCheck.isValid
      THEN Outcome(400, referentialCheck.errors, NoData, emps,
                   FALSE, uniquenessCheck.isValid, FALSE)
      ELSE IF ~uniquenessCheck.isValid
      THEN Outcome(409, uniquenessCheck.errors, NoData, emps, TRUE, FALSE, FALSE)
      ELSE IF ~UpdateCastable(updateData)
      THEN Outcome(400, <<Err("Update process failed")>>, NoData, emps, TRUE, TRUE, TRUE)
      ELSE LET old == CHOOSE e \in emps : e.id = employeeId
               updated == ApplyEmployeeUpdate(old, updateData)
           IN  IF ~EmployeeUpdateValid(updateData, updated)
               THEN Outcome(400, <<Err("Data validation error during update")>>, NoData,
                            emps, TRUE, TRUE, TRUE)
               ELSE IF ~EmployeeIndexOk(emps \ {old}, updated)
               THEN Outcome(409, <<Err("Employee with this employee code already exists")>>,
                            NoData, emps, TRUE, TRUE, TRUE)
               ELSE Outcome(200, <<Err("Employee updated successfully")>>,
                            transformEmployeeResponse(updated,
                                                      getUserEmailById(usrs, updated.userId)),
                            (emps \ {old}) \cup {updated}, TRUE, TRUE, TRUE)

\* the snapshot deleteEmployee answers with
DeletedEmployee(employee) ==
  [id |-> employee.id, fullName |-> employee.fullName,
   employeeCode |-> employee.employeeCode, companyId |-> employee.companyId,
   status |-> employee.status, createdAt |-> employee.createdAt]

\* DELETE /api/employees/:id
deleteEmployee(emps, employeeId) ==
  IF employeeId <= 0
  THEN Outcome(400, <<Err("Invalid employee ID. Must be a positive integer.")>>, NoData,
               emps, TRUE, TRUE, FALSE)
  ELSE IF ~\E e \in emps : e.id = employeeId
  THEN Outcome(404, <<ErrN("Employee with ID not found", employeeId)>>, NoData, emps,
               TRUE, TRUE, TRUE)
  ELSE LET employee == CHOOSE e \in emps : e.id = employeeId
       IN  Outcome(200, <<Err("Employee deleted successfully")>>, DeletedEmployee(employee),
                   emps \ {employee}, TRUE, TRUE, TRUE)

-----------------------------------------------------------------------------
(* materialsController.js: the user handlers *)

MaxEmailLength == 254

\* /^[^\s@]+@[^\s@]+\.[^\s@]+$/
EmailMatches(s) ==
  /\ \A i \in 1..Len(s) : ~IsSpace(s[i])
  /\ Cardinality({i \in 1..Len(s) : s[i] = "@"}) = 1
  /\ \E i \in 2..Len(s) :
        /\ s[i] = "@"
        /\ \E j \in (i + 2)..(Len(s) - 1) : s[j] = "."

validateUserInput(data) ==
     When(~Truthy(data, "id"), <<Err("User ID is required")>>)
  \o When(~TruthyS(data, "email"), <<Err("Email is required")>>)
  \o When(~TruthyS(data, "name"), <<Err("Name is required")>>)
  \o When(Truthy(data, "id") /\ isNaN(data.id), <<Err("User ID must be a number")>>)
  \o When(TruthyS(data, "email") /\ ~EmailMatches(data.email),
          <<Err("Please provide a valid email address")>>)
  \o When(TruthyS(data, "name") /\ Len(trim(data.name)) = 0,
          <<Err("User name cannot be empty")>>)
  \o When(TruthyS(data, "name") /\ Len(trim(data.name)) > MaxNameLength,
          <<Err("User name must be less than 100 characters")>>)
  \o When(TruthyS(data, "email") /\ Len(data.email) > MaxEmailLength,
          <<Err("Email address is too long")>>)
  \o When(Has(data, "isActive") /\ "bool" \notin DOMAIN data.isActive,
          <<Err("Active status must be a boolean value")>>)

\* the email trimmed, its case kept
SanitizeEmailKeepCase(s) == trim(s)

\* email.toLowerCase().trim()
SanitizeEmail(s) == trim(toLowerCase(s))

\* isActive = Boolean(isActive) when defined, true when undefined
UserIsActive(d) ==
  Put(d, "isActive", IF Has(d, "isActive") THEN BoolV(TruthyV(d.isActive)) ELSE BoolV(TRUE))

\* createdAt parsed, or new Date() when it is missing or does not parse
UserCreatedAt(d, t) ==
  Put(d, "createdAt",
      IF Has(d, "createdAt") /\ ~InvalidDate(d.createdAt) THEN NewDate(d.createdAt)
      ELSE DateV(t))

normalizeUserData(data, t) ==
  LET n1 == IntField(data, "id")
      n2 == StrField(n1, "email", SanitizeEmail)
      n3 == StrField(n2, "name", SanitizeName)
      n4 == UserIsActive(n3)
  IN  UserCreatedAt(n4, t)

\* the filters of checkUserUniqueness
UserIdQueryMatches(u, userId, excludeUserId) ==
  IF excludeUserId # 0 THEN u.id # excludeUserId ELSE u.id = userId

UserEmailQueryMatches(u, email, excludeUserId) ==
  /\ u.email = SanitizeEmail(email)
  /\ excludeUserId # 0 => u.id # excludeUserId

checkUserUniqueness(usrs, userId, email, excludeUserId) ==
  LET existingById == \E u \in usrs : UserIdQueryMatches(u, userId, excludeUserId)
      existingByEmail == \E u \in usrs : UserEmailQueryMatches(u, email, excludeUserId)
      errors ==
           When(existingById, <<ErrN("User with ID already exists", userId)>>)
        \o When(existingByEmail, <<Err("User with email already exists")>>)
  IN  [isValid |-> errors = <<>>, errors |-> errors]

\* the metadata of an active account, whatever the flag
generateUserMetadataActive(isActive, t) ==
  [accountStatus |-> ACTIVE, lastActive |-> IF isActive THEN t ELSE 0,
   loginCount |-> 0, emailVerified |-> FALSE, twoFactorEnabled |-> FALSE]

\* lastActive is 0 for null
generateUserMetadata(isActive, t) ==
  [accountStatus |-> IF isActive THEN ACTIVE ELSE INACTIVE,
   lastActive |-> IF isActive THEN t ELSE 0,
   loginCount |-> 0, emailVerified |-> FALSE, twoFactorEnabled |-> FALSE]

\* schema validation of a user document and the unique indexes (id, email)
UserSchemaValid(doc) == doc.id # 0 /\ doc.email # <<>> /\ doc.name # <<>>
UserIndexOk(usrs, doc) == \A u \in usrs : u.id # doc.id /\ u.email # doc.email

\* the handler going on to save() whatever the uniqueness check found
createUserSaveRegardless(usrs, body, t) ==
  LET validationErrors == validateUserInput(body)
      n == normalizeUserData(body, t)
      uniquenessCheck == checkUserUniqueness(usrs, NumOf(n, "id"), StrOf(n, "email"), 0)
      doc == [id |-> NumOf(n, "id"), email |-> StrOf(n, "email"), name |-> StrOf(n, "name"),
              isActive |-> n.isActive.bool, createdAt |-> DateTime(n.createdAt),
              updatedAt |-> t, metadata |-> generateUserMetadata(n.isActive.bool, t)]
  IN  IF validationErrors # <<>>
      THEN ValidationFailed(validationErrors, usrs)
      ELSE IF ~UserSchemaValid(doc)
      THEN Outcome(400, <<Err("Data validation error")>>, NoData, usrs,
                   TRUE, uniquenessCheck.isValid, TRUE)
      ELSE IF ~UserIndexOk(usrs, doc)
      THEN Outcome(409, <<Err("User with this field already exists")>>, NoData, usrs,
                   TRUE, uniquenessCheck.isValid, TRUE)
      ELSE Outcome(201, <<Err("User created successfully")>>, doc, usrs \cup {doc},
                   TRUE, uniquenessCheck.isValid, TRUE)

\* POST /api/users
createUser(usrs, body, t) ==
  LET validationErrors == validateUserInput(body)
      n == normalizeUserData(body, t)
      uniquenessCheck == checkUserUniqueness(usrs, NumOf(n, "id"), StrOf(n, "email"), 0)
      doc == [id |-> NumOf(n, "id"), email |-> StrOf(n, "email"), name |-> StrOf(n, "name"),
              isActive |-> n.isActive.bool, createdAt |-> DateTime(n.createdAt),
              updatedAt |-> t, metadata |-> generateUserMetadata(n.isActive.bool, t)]
  IN  IF validationErrors # <<>>
      THEN ValidationFailed(validationErrors, usrs)
      ELSE IF ~uniquenessCheck.isValid
      THEN Outcome(409, uniquenessCheck.errors, NoData, usrs, TRUE, FALSE, FALSE)
      ELSE IF ~UserSchemaValid(doc)
      THEN Outcome(400, <<Err("Data validation error")>>, NoData, usrs, TRUE, TRUE, TRUE)
      ELSE IF ~UserIndexOk(usrs, doc)
      THEN Outcome(409, <<Err("User with this field already exists")>>, NoData, usrs,
                   TRUE, TRUE, TRUE)
      ELSE Outcome(201, <<Err("User created successfully")>>, doc, usrs \cup {doc},
                   TRUE, TRUE, TRUE)

\* findOneAndUpdate's $set on a user document
ApplyUserUpdate(doc, updateData, metadata, t) ==
  [f \in DOMAIN doc |->
     IF f = "updatedAt" THEN t
     ELSE IF f = "metadata" THEN metadata
     ELSE IF f \notin DOMAIN updateData THEN doc[f]
     ELSE IF f = "id" THEN CastNum(updateData[f])
     ELSE IF f = "isActive" THEN updateData[f].bool
     ELSE IF f = "createdAt" THEN DateTime(updateData[f])
     ELSE updateData[f]]

\* PUT /api/users/:id
updateUser(usrs, userId, body, t) ==
  LET updateData == normalizeUserData(body, t)
      uniquenessCheck ==
        IF TruthyS(updateData, "email")
        THEN checkUserUniqueness(usrs, userId, updateData.email, userId)
        ELSE [isValid |-> TRUE, errors |-> <<>>]
      existing == {u \in usrs : u.id = userId}
  IN  IF userId <= 0
      THEN Outcome(400, <<Err("Invalid user ID. Must be a positive integer.")>>, NoData,
                   usrs, TRUE, TRUE, FALSE)
      ELSE IF existing = {}
      THEN Outcome(404, <<ErrN("User with ID not found", userId)>>, NoData, usrs,
                   TRUE, uniquenessCheck.isValid, FALSE)
      ELSE IF ~uniquenessCheck.isValid
      THEN Outcome(409, uniquenessCheck.errors, NoData, usrs, TRUE, FALSE, FALSE)
      ELSE IF Has(updateData, "id") /\ ~Castable(updateData.id)
      THEN Outcome(400, <<Err("Update process failed")>>, NoData, usrs, TRUE, TRUE, TRUE)
      ELSE LET existingUser == CHOOSE u \in usrs : u.id = userId
               \* the isActive of {...existingUser, ...updateData}
               generated == generateUserMetadata(updateData.isActive.bool, t)
               metadata ==
                 IF updateData.isActive.bool /\ ~existingUser.isActive
                 THEN [generated EXCEPT !.lastActive = t] ELSE generated
               updated == ApplyUserUpdate(existingUser, updateData, metadata, t)
           IN  IF ~UserSchemaValid(updated)
               THEN Outcome(400, <<Err("Data validation error during update")>>, NoData,
                            usrs, TRUE, TRUE, TRUE)
               ELSE IF ~UserIndexOk(usrs \ {existingUser}, updated)
               THEN Outcome(400, <<Err("Update process failed")>>, NoData, usrs,
                            TRUE, TRUE, TRUE)
               ELSE Outcome(200, <<Err("User updated successfully")>>, updated,
                            (usrs \ {existingUser}) \cup {updated}, TRUE, TRUE, TRUE)

\* DELETE /api/users/:id
deleteUser(usrs, userId) ==
  IF userId <= 0
  THEN Outcome(400, <<Err("Invalid user ID. Must be a positive integer.")>>, NoData,
               usrs, TRUE, TRUE, FALSE)
  ELSE IF ~\E u \in usrs : u.id = userId
  THEN Outcome(404, <<ErrN("User with ID not found", userId)>>, NoData, usrs,
               TRUE, TRUE, TRUE)
  ELSE LET user == CHOOSE u \in usrs : u.id = userId
       IN  Outcome(200, <<Err("User deleted successfully")>>,
                   [id |-> user.id, name |-> user.name, email |-> user.email,
                    isActive |-> user.isActive, createdAt |-> user.createdAt],
                   usrs \ {user}, TRUE, TRUE, TRUE)

-----------------------------------------------------------------------------
(* The project controller and models/Project.js *)

PLANNING == <<"P","L","A","N","N","I","N","G">>
ON_HOLD == <<"O","N","_","H","O","L","D">>
COMPLETED == <<"C","O","M","P","L","E","T","E","D">>
CANCELLED == <<"C","A","N","C","E","L","L","E","D">>
Planned == <<"P","l","a","n","n","e","d">>
Ongoing == <<"O","n","g","o","i","n","g">>
Completed == <<"C","o","m","p","l","e","t","e","d">>
Warranty == <<"W","a","r","r","a","n","t","y">>
Cancelled == <<"C","a","n","c","e","l","l","e","d">>

\* the statuses validateProjectInput accepts
ProjectValidStatuses == {PLANNING, ACTIVE, ON_HOLD, COMPLETED, CANCELLED}
\* the enum of projectSchema.status
ProjectSchemaStatuses == {Planned, Ongoing, Completed, Warranty, Cancelled}

\* a budget is [num |-> n] (n may be negative) or a string
BudgetNegative(v) == IsNum(v) /\ v.num < 0

\* the rule on the order of the dates, with < for <=
EndBeforeStart(data) ==
  /\ TruthyD(data, "startDate") /\ TruthyD(data, "endDate")
  /\ ~InvalidDate(data.startDate) /\ ~InvalidDate(data.endDate)
  /\ DateTime(data.endDate) < DateTime(data.startDate)

\* if (startDate && endDate) ... end <= start; a comparison with an invalid
\* date is false
EndNotAfterStart(data) ==
  /\ TruthyD(data, "startDate") /\ TruthyD(data, "endDate")
  /\ ~InvalidDate(data.startDate) /\ ~InvalidDate(data.endDate)
  /\ DateTime(data.endDate) <= DateTime(data.startDate)

validateProjectInput(data) ==
     When(~TruthyS(data, "name"), <<Err("Project name is required")>>)
  \o When(~Truthy(data, "companyId"), <<Err("Company ID is required")>>)
  \o When(Truthy(data, "companyId") /\ isNaN(data.companyId),
          <<Err("Company ID must be a number")>>)
  \o When(Truthy(data, "budget") /\ isNaN(data.budget), <<Err("Budget must be a number")>>)
  \o When(TruthyS(data, "name") /\ Len(trim(data.name)) = 0,
          <<Err("Project name cannot be empty")>>)
  \o When(TruthyS(data, "name") /\ Len(trim(data.name)) > MaxNameLength,
          <<Err("Project name must be less than 100 characters")>>)
  \o When(TruthyS(data, "code") /\ Len(trim(data.code)) > MaxCodeLength,
          <<Err("Project code must be less than 20 characters")>>)
  \o When(TruthyD(data, "startDate") /\ InvalidDate(data.startDate),
          <<Err("Start date must be a valid date")>>)
  \o When(TruthyD(data, "endDate") /\ InvalidDate(data.endDate),
          <<Err("End date must be a valid date")>>)
  \o When(EndNotAfterStart(data), <<Err("End date must be after start date")>>)
  \o When(Truthy(data, "budget") /\ BudgetNegative(data.budget),
          <<Err("Budget cannot be negative")>>)
  \o When(TruthyS(data, "status") /\ data.status \notin ProjectValidStatuses,
          <<Err("Status must be one of: PLANNING, ACTIVE, ON_HOLD, COMPLETED, CANCELLED")>>)

\* parseFloat(v) reads the exponent too; the payloads carry no fractions
parseFloat(v) == IF IsExp(v) THEN v ELSE parseInt(v)

\* new Date(v), or null when v does not parse
DateOrNull(v) == IF InvalidDate(v) THEN NullV ELSE NewDate(v)

\* if (d.f) d.f = the date it parses to, or null
DateField(d, f) == IF Has(d, f) /\ ~IsNull(d[f]) THEN Put(d, f, DateOrNull(d[f])) ELSE d

\* if (d.budget) d.budget = parseFloat(d.budget), then if (!d.budget) d.budget = 0
BudgetField(d) ==
  IF Truthy(d, "budget") /\ TruthyV(parseFloat(d.budget))
  THEN Put(d, "budget", parseFloat(d.budget))
  ELSE Put(d, "budget", NumV(0))

\* toUpperCase of the trimmed code
SanitizeCode(s) == toUpperCase(trim(s))

normalizeProjectData(data) ==
  LET n1 == IntField(data, "companyId")
      n2 == BudgetField(n1)
      n3 == StrField(n2, "name", SanitizeName)
      n4 == StrField(n3, "code", SanitizeCode)
      n5 == StrField(n4, "description", trim)
      n6 == StrField(n5, "location", trim)
      n7 == DateField(n6, "startDate")
      n8 == DateField(n7, "endDate")
  IN  DefaultStr(n8, "status", PLANNING)

validateCompanyExistence(comps, companyId) == CompanyExists(comps, companyId)

\* Project.findOne({code, id: {$ne: exclude}}): a stored project matches when
\* it holds that code.  projectSchema has no path code (it has projectCode),
\* so no stored document holds one.
checkProjectCodeUniqueness(projs, code, excludeProjectId) ==
  ~\E p \in projs :
      /\ Has(p, "code") /\ p.code = SanitizeCode(code)
      /\ excludeProjectId # 0 => p.id # excludeProjectId

\* the greatest of a non-empty set of numbers
Max(S) == CHOOSE x \in S : \A y \in S : y <= x

generateNextProjectId(projs) ==
  IF projs = {} THEN 1 ELSE Max({p.id : p \in projs}) + 1

\* the date a document stores: a time, 0 for null
StoredDate(d, f) == IF Has(d, f) /\ ~IsNull(d[f]) THEN DateTime(d[f]) ELSE 0

\* new Project(projectData): the paths of projectSchema; the schema is
\* strict, so the other fields (code, metadata, location) are dropped
ProjectDocument(projectId, n) ==
  [id |-> IF Has(n, "id") /\ Castable(n.id) THEN CastNum(n.id) ELSE projectId,
   companyId |-> NumOf(n, "companyId"), name |-> StrOf(n, "name"),
   startDate |-> StoredDate(n, "startDate"), endDate |-> StoredDate(n, "endDate"),
   budget |-> NumOf(n, "budget"), status |-> StrOf(n, "status"),
   createdBy |-> NumOf(n, "createdBy")]

\* the validators of projectSchema: required paths, budget min 0, status enum
ProjectSchemaValid(doc) ==
  /\ doc.id # 0 /\ doc.companyId # 0 /\ doc.name # <<>> /\ doc.createdBy # 0
  /\ doc.budget >= 0
  /\ doc.status \in ProjectSchemaStatuses

\* the unique index on id
ProjectIndexOk(projs, doc) == \A p \in projs : p.id # doc.id

\* save() of createProject: what the handler answers and the collection left
SaveProject(projs, doc, refOk, uniqOk) ==
  IF ~ProjectSchemaValid(doc)
  THEN Outcome(500, <<Err("Server error during project creation")>>, NoData, projs,
               refOk, uniqOk, TRUE)
  ELSE IF ~ProjectIndexOk(projs, doc)
  THEN Outcome(409, <<Err("Project with this field already exists")>>, NoData, projs,
               refOk, uniqOk, TRUE)
  ELSE Outcome(201, <<Err("Project created successfully")>>, doc, projs \cup {doc},
               refOk, uniqOk, TRUE)

\* POST /api/projects, handled without another request in between
createProject(comps, projs, body) ==
  LET validationErrors == validateProjectInput(body)
      n == normalizeProjectData(body)
      nextProjectId == generateNextProjectId(projs)
      companyExists == validateCompanyExistence(comps, NumOf(n, "companyId"))
      isCodeUnique == IF TruthyS(n, "code") THEN checkProjectCodeUniqueness(projs, n.code, 0)
                      ELSE TRUE
  IN  IF validationErrors # <<>>
      THEN ValidationFailed(validationErrors, projs)
      ELSE IF ~companyExists
      THEN Outcome(400, <<ErrN("Company with ID does not exist", NumOf(n, "companyId"))>>,
                   NoData, projs, FALSE, isCodeUnique, FALSE)
      ELSE IF ~isCodeUnique
      THEN Outcome(409, <<Err("Project code already exists")>>, NoData, projs,
                   TRUE, FALSE, FALSE)
      ELSE SaveProject(projs, ProjectDocument(nextProjectId, n), TRUE, TRUE)

\* findOneAndUpdate's $set on a project document: the schema's paths among
\* the update's fields (id was deleted from the update)
ApplyProjectUpdate(doc, updateData) ==
  [f \in DOMAIN doc |->
     IF f = "id" \/ f \notin DOMAIN updateData THEN doc[f]
     ELSE IF f \in {"companyId", "budget", "createdBy"} THEN CastNum(updateData[f])
     ELSE IF f \in {"startDate", "endDate"} THEN StoredDate(updateData, f)
     ELSE updateData[f]]

ProjectUpdateCastable(updateData) ==
  \A f \in {"companyId", "budget", "createdBy"} \cap DOMAIN updateData :
     Castable(updateData[f])

\* runValidators: the validators of the paths the update sets
ProjectUpdateValid(updateData, updated) ==
  /\ Has(updateData, "companyId") => updated.companyId # 0
  /\ Has(updateData, "name") => updated.name # <<>>
  /\ Has(updateData, "createdBy") => updated.createdBy # 0
  /\ updated.budget >= 0
  /\ updated.status \in ProjectSchemaStatuses

\* PUT /api/projects/:id
updateProject(comps, projs, projectId, body) ==
  LET updateData == normalizeProjectData(body)
      companyExists ==
        IF Truthy(updateData, "companyId")
        THEN validateCompanyExistence(comps, NumOf(updateData, "companyId")) ELSE TRUE
      isCodeUnique ==
        IF TruthyS(updateData, "code")
        THEN checkProjectCodeUniqueness(projs, updateData.code, projectId) ELSE TRUE
      existing == {p \in projs : p.id = projectId}
  IN  IF projectId <= 0
      THEN Outcome(400, <<Err("Invalid project ID format. Must be a positive integer.")>>,
                   NoData, projs, TRUE, TRUE, FALSE)
      ELSE IF existing = {}
      THEN Outcome(404, <<ErrN("Project with ID not found", projectId)>>, NoData, projs,
                   companyExists, isCodeUnique, FALSE)
      ELSE IF Truthy(updateData, "companyId") /\ ~companyExists
      THEN Outcome(400, <<ErrN("Company with ID does not exist",
                                NumOf(updateData, "companyId"))>>,
                   NoData, projs, FALSE, isCodeUnique, FALSE)
      ELSE IF ~isCodeUnique
      THEN Outcome(409, <<Err("Project code already exists")>>, NoData, projs,
                   TRUE, FALSE, FALSE)
      ELSE IF ~ProjectUpdateCastable(updateData)
      THEN Outcome(400, <<Err("Update process failed")>>, NoData, projs, TRUE, TRUE, TRUE)
      ELSE LET existingProject == CHOOSE p \in projs : p.id = projectId
               updated == ApplyProjectUpdate(existingProject, updateData)
           IN  IF ~ProjectUpdateValid(updateData, updated)
               THEN Outcome(400, <<Err("Update process failed")>>, NoData, projs,
                            TRUE, TRUE, TRUE)
               ELSE Outcome(200, <<Err("Project updated successfully")>>, updated,
                            (projs \ {existingProject}) \cup {updated}, TRUE, TRUE, TRUE)

\* DELETE /api/projects/:id
deleteProject(projs, projectId) ==
  IF projectId <= 0
  THEN Outcome(400, <<Err("Invalid project ID format. Must be a positive integer.")>>,
               NoData, projs, TRUE, TRUE, FALSE)
  ELSE IF ~\E p \in projs : p.id = projectId
  THEN Outcome(404, <<ErrN("Project with ID not found", projectId)>>, NoData, projs,
               TRUE, TRUE, TRUE)
  ELSE LET project == CHOOSE p \in projs : p.id = projectId
       IN  Outcome(200, <<Err("Project deleted successfully")>>,
                   [id |-> projectId, name |-> project.name], projs \ {project},
                   TRUE, TRUE, TRUE)

-----------------------------------------------------------------------------
(* taskController.js.  models/Task.js is not among the sources: the stored   *)
(* document holds the fields the specification lists for a Task.             *)

PLANNED == <<"P","L","A","N","N","E","D">>
IN_PROGRESS == <<"I","N","_","P","R","O","G","R","E","S","S">>
WORK == <<"W","O","R","K">>
TRANSPORT == <<"T","R","A","N","S","P","O","R","T">>
MATERIAL == <<"M","A","T","E","R","I","A","L">>
TOOL == <<"T","O","O","L">>
INSPECTION == <<"I","N","S","P","E","C","T","I","O","N">>
MAINTENANCE == <<"M","A","I","N","T","E","N","A","N","C","E">>
ADMIN == <<"A","D","M","I","N">>
TRAINING == <<"T","R","A","I","N","I","N","G">>
OTHER_TYPE == <<"O","T","H","E","R">>

TaskValidStatuses == {PLANNED, IN_PROGRESS, COMPLETED, CANCELLED}
ValidTaskTypes == {WORK, TRANSPORT, MATERIAL, TOOL, INSPECTION, MAINTENANCE, ADMIN,
                   TRAINING, OTHER_TYPE}

validateTaskInput(data) ==
     When(~Truthy(data, "companyId"), <<Err("Company ID is required")>>)
  \o When(~Truthy(data, "projectId"), <<Err("Project ID is required")>>)
  \o When(~TruthyS(data, "taskName"), <<Err("Task name is required")>>)
  \o When(~TruthyS(data, "taskType"), <<Err("Task type is required")>>)
  \o When(Truthy(data, "companyId") /\ isNaN(data.companyId),
          <<Err("Company ID must be a number")>>)
  \o When(Truthy(data, "projectId") /\ isNaN(data.projectId),
          <<Err("Project ID must be a number")>>)
  \o When(TruthyD(data, "startDate") /\ InvalidDate(data.startDate),
          <<Err("Start date must be a valid date")>>)
  \o When(TruthyD(data, "endDate") /\ InvalidDate(data.endDate),
          <<Err("End date must be a valid date")>>)
  \o When(/\ TruthyD(data, "startDate") /\ TruthyD(data, "endDate")
          /\ ~InvalidDate(data.startDate) /\ ~InvalidDate(data.endDate)
          /\ DateTime(data.endDate) <= DateTime(data.startDate),
          <<Err("End date must be after start date")>>)
  \o When(TruthyS(data, "status") /\ data.status \notin TaskValidStatuses,
          <<Err("Status must be one of: PLANNED, IN_PROGRESS, COMPLETED, CANCELLED")>>)
  \o When(TruthyS(data, "taskType") /\ data.taskType \notin ValidTaskTypes,
          <<Err("Task type must be one of the valid task types")>>)

\* the empty object {}
EmptyObject == [obj |-> 0]

\* the defaults of additionalData and createdAt
TaskDefaults(d, t) ==
  LET d1 == IF Has(d, "additionalData") THEN d ELSE Put(d, "additionalData", EmptyObject)
  IN  IF TruthyD(d1, "createdAt") THEN d1 ELSE Put(d1, "createdAt", DateV(t))

\* t is the value of new Date() when the normalizer runs
normalizeTaskData(data, t) ==
  LET n1 == IntField(data, "companyId")
      n2 == IntField(n1, "projectId")
      n3 == IntField(n2, "createdBy")
      n4 == StrField(n3, "taskName", trim)
      n5 == StrField(n4, "description", trim)
      n6 == StrField(n5, "notes", trim)
      n7 == DateField(n6, "startDate")
      n8 == DateField(n7, "endDate")
      n9 == DefaultStr(n8, "status", PLANNED)
  IN  TaskDefaults(n9, t)

ProjectExists(projs, projectId) == \E p \in projs : p.id = projectId

\* validateReferentialIntegrity(companyId, projectId) of taskController.js
validateTaskReferentialIntegrity(comps, projs, companyId, projectId) ==
  LET errors ==
           When(~CompanyExists(comps, companyId),
                <<ErrN("Company with ID does not exist", companyId)>>)
        \o When(~ProjectExists(projs, projectId),
                <<ErrN("Project with ID does not exist", projectId)>>)
  IN  [isValid |-> errors = <<>>, errors |-> errors]

\* Task.findOne().sort({id: -1}), then lastTask ? lastTask.id + 1 : 1
NextTaskId(tsks) == IF tsks = {} THEN 1 ELSE Max({k.id : k \in tsks}) + 1

\* new Task(taskData): the stored document
TaskDocument(n, t) ==
  [id |-> IF Has(n, "id") /\ Castable(n.id) THEN CastNum(n.id) ELSE 0,
   companyId |-> NumOf(n, "companyId"), projectId |-> NumOf(n, "projectId"),
   taskName |-> StrOf(n, "taskName"), taskType |-> StrOf(n, "taskType"),
   status |-> StrOf(n, "status"),
   startDate |-> StoredDate(n, "startDate"), endDate |-> StoredDate(n, "endDate"),
   createdAt |-> StoredDate(n, "createdAt"), updatedAt |-> t]

\* schema validation of a task document: required fields and the enums
TaskSchemaValid(doc) ==
  /\ doc.id # 0 /\ doc.companyId # 0 /\ doc.projectId # 0
  /\ doc.taskName # <<>>
  /\ doc.taskType \in ValidTaskTypes
  /\ doc.status \in TaskValidStatuses

\* the unique index on id, when the collection has one
TaskIndexOk(tsks, doc, idIndex) == idIndex => \A k \in tsks : k.id # doc.id

\* createTask up to the id: validation, normalization and, when the body
\* carries no id, the read of the last task.  The result is the normalized
\* data the rest of the handler works on.
AssignTaskId(tsks, body, t) ==
  LET n == normalizeTaskData(body, t)
  IN  Upd(n, "id", ~Truthy(n, "id"), NumV(NextTaskId(tsks)))

\* task.save(): what createTask answers and the collection left
SaveTask(tsks, n, t, idIndex) ==
  LET doc == TaskDocument(n, t)
  IN  IF ~TaskSchemaValid(doc)
      THEN Outcome(400, <<Err("Data validation error")>>, NoData, tsks, TRUE, TRUE, TRUE)
      ELSE IF ~TaskIndexOk(tsks, doc, idIndex)
      THEN Outcome(409, <<Err("Task with this ID already exists")>>, NoData, tsks,
                   TRUE, TRUE, TRUE)
      ELSE Outcome(201, <<Err("Task created successfully")>>, doc, tsks \cup {doc},
                   TRUE, TRUE, TRUE)

\* createTask from the referential check on, for normalized data n
FinishCreateTask(comps, projs, tsks, n, t, idIndex) ==
  LET referentialCheck ==
        validateTaskReferentialIntegrity(comps, projs, NumOf(n, "companyId"),
                                         NumOf(n, "projectId"))
  IN  IF ~referentialCheck.isValid
      THEN Outcome(400, referentialCheck.errors, NoData, tsks, FALSE, TRUE, FALSE)
      ELSE SaveTask(tsks, n, t, idIndex)

\* POST /api/tasks, handled without another request in between
createTask(comps, projs, tsks, body, t, idIndex) ==
  LET validationErrors == validateTaskInput(body)
  IN  IF validationErrors # <<>>
      THEN ValidationFailed(validationErrors, tsks)
      ELSE FinishCreateTask(comps, projs, tsks, AssignTaskId(tsks, body, t), t, idIndex)

\* GET /api/tasks/:id, for a numeric id
getTaskById(tsks, taskId) ==
  IF ~\E k \in tsks : k.id = taskId
  THEN Outcome(404, <<Err("Task not found")>>, NoData, tsks, TRUE, TRUE, FALSE)
  ELSE Outcome(200, <<>>, CHOOSE k \in tsks : k.id = taskId, tsks, TRUE, TRUE, FALSE)

TaskNumFields == {"id", "companyId", "projectId"}

TaskUpdateCastable(updateData) ==
  \A f \in TaskNumFields \cap DOMAIN updateData : Castable(updateData[f])

\* findOneAndUpdate's $set on a task document
ApplyTaskUpdate(doc, updateData, t) ==
  [f \in DOMAIN doc |->
     IF f = "updatedAt" THEN t
     ELSE IF f \notin DOMAIN updateData THEN doc[f]
     ELSE IF f \in TaskNumFields THEN CastNum(updateData[f])
     ELSE IF f \in {"startDate", "endDate", "createdAt"} THEN StoredDate(updateData, f)
     ELSE updateData[f]]

\* runValidators: the validators of the paths the update sets
TaskUpdateValid(updateData) ==
  /\ \A f \in TaskNumFields \cap DOMAIN updateData : CastNum(updateData[f]) # 0
  /\ Has(updateData, "taskName") => updateData.taskName # <<>>
  /\ Has(updateData, "taskType") => updateData.taskType \in ValidTaskTypes
  /\ updateData.status \in TaskValidStatuses

\* PUT /api/tasks/:id, for a numeric id
updateTask(tsks, taskId, body, t, idIndex) ==
  LET updateData == normalizeTaskData(body, t)
  IN  IF ~TaskUpdateCastable(updateData) \/ ~TaskUpdateValid(updateData)
      THEN Outcome(500, <<Err("Error updating task")>>, NoData, tsks, TRUE, TRUE, TRUE)
      ELSE IF ~\E k \in tsks : k.id = taskId
      THEN Outcome(404, <<Err("Task not found")>>, NoData, tsks, TRUE, TRUE, TRUE)
      ELSE LET old == CHOOSE k \in tsks : k.id = taskId
               updatedTask == ApplyTaskUpdate(old, updateData, t)
           IN  IF ~TaskIndexOk(tsks \ {old}, updatedTask, idIndex)
               THEN Outcome(500, <<Err("Error updating task")>>, NoData, tsks,
                            TRUE, TRUE, TRUE)
               ELSE Outcome(200, <<Err("Task updated successfully")>>, updatedTask,
                            (tsks \ {old}) \cup {updatedTask}, TRUE, TRUE, TRUE)

\* DELETE /api/tasks/:id, for a numeric id
deleteTask(tsks, taskId) ==
  IF ~\E k \in tsks : k.id = taskId
  THEN Outcome(404, <<Err("Task not found")>>, NoData, tsks, TRUE, TRUE, TRUE)
  ELSE LET deletedTask == CHOOSE k \in tsks : k.id = taskId
       IN  Outcome(200, <<Err("Task deleted successfully")>>, deletedTask,
                   tsks \ {deletedTask}, TRUE, TRUE, TRUE)

-----------------------------------------------------------------------------
(* The state machine: requests and responses *)

\* the response of a handler to the request (op, id, body)
Respond(op, id, body, r) ==
  [op |-> op, id |-> id, body |-> body, status |-> r.status, message |-> r.message,
   data |-> r.data, refOk |-> r.refOk, uniqOk |-> r.uniqOk, wrote |-> r.wrote]

NoResponse ==
  [op |-> "none", id |-> 0, body |-> NoData, status |-> 0, message |-> <<>>,
   data |-> NoData, refOk |-> TRUE, uniqOk |-> TRUE, wrote |-> FALSE]

NoHistory == [deleted |-> {}, assigned |-> {}]

\* no fleet task, no passenger record and no request in flight
NoFleet == [tasks |-> {}, passengers |-> {}, inflight |-> {}]

\* no submission of the page runs
Idle == [pc |-> "idle", n |-> 0, passengers |-> {}]

\* JsCreateTaskPage as it mounts: the useState defaults
NoWizard ==
  [currentStep |-> 0, loading |-> FALSE, selectedPassengers |-> {}, nextClicks |-> {},
   submit |-> Idle, submitted |-> 0, timers |-> {},
   message |-> [text |-> "none", n |-> 0, passengers |-> {}]]

\* the ids of stored documents, and the :id parameters of requests
Ids == 1..MaxId
ParamIds == 0..MaxId
\* the companies stored: every id but the last
StoredCompanies == 1..(MaxId - 1)

\* an object with the fields of both; b's fields win
Merge(a, b) == [f \in DOMAIN a \cup DOMAIN b |-> IF f \in DOMAIN b THEN b[f] ELSE a[f]]

\* ids as a request carries them, here as numbers
IdInputs == {NumV(i) : i \in Ids}
CodeInputs == {<<"A">>, <<"B">>}

seedEmail == <<"a", "@", "b", ".", "c">>
otherEmail == <<"c", "@", "b", ".", "c">>

\* the rest of an employee payload: plain, or with every optional field
EmployeeExtras ==
  { [fullName |-> <<"a">>],
    [fullName |-> <<" ", "a", " ", " ", "b">>, userId |-> StrV(<<"1">>),
     phone |-> <<"1", "-", "2">>, jobTitle |-> <<" ", "j", " ">>, status |-> INACTIVE] }

\* payloads with the ids as strings and blanks around the code
StringIdBodies ==
  { Merge([id |-> StrV(<<"2">>), companyId |-> StrV(<<"1">>), employeeCode |-> k], x) :
      k \in {<<" ", "A", " ">>, <<"B", " ">>}, x \in EmployeeExtras }

\* payloads that fail a check: a user that is not stored, an id that is no
\* number, a status in lower case, no name
RejectedEmployeeBodies ==
  { [id |-> NumV(1), companyId |-> NumV(1), employeeCode |-> <<"A">>,
     fullName |-> <<"a">>, userId |-> NumV(MaxId)],
    [id |-> StrV(<<"x">>), companyId |-> NumV(1), employeeCode |-> <<"A">>,
     fullName |-> <<"a">>],
    [id |-> NumV(1), companyId |-> NumV(1), employeeCode |-> <<"A">>,
     fullName |-> <<"a">>, status |-> toLowerCase(ACTIVE)],
    [id |-> NumV(1), companyId |-> NumV(MaxId), employeeCode |-> <<"A">>] }

\* a payload without a status, with blanks in and around the name, a phone
\* with brackets and a code in lower case
LowerCaseCodeBodies ==
  { [id |-> NumV(1), companyId |-> NumV(1), employeeCode |-> <<"a">>,
     fullName |-> <<" ", "a", " ", " ", " ", "b", " ">>,
     phone |-> <<"(", "1", ")", " ", "2">>] }

EmployeeBodies ==
     { Merge([id |-> i, companyId |-> c, employeeCode |-> k], x) :
         i \in IdInputs, c \in IdInputs, k \in CodeInputs, x \in EmployeeExtras }
  \cup StringIdBodies \cup RejectedEmployeeBodies \cup LowerCaseCodeBodies

EmployeeUpdates ==
     { [employeeCode |-> k] : k \in CodeInputs }
  \cup { [companyId |-> c] : c \in IdInputs }
  \cup { [id |-> i] : i \in IdInputs }
  \cup { [userId |-> NumV(MaxId)], [userId |-> NumV(1)] }
  \cup { [companyId |-> NumV(MaxId), employeeCode |-> <<"A">>] }

\* the user the employee requests can refer to
SeedUser ==
  [id |-> 1, email |-> seedEmail, name |-> <<"u">>, isActive |-> TRUE,
   createdAt |-> 1, updatedAt |-> 1, metadata |-> generateUserMetadata(TRUE, 1)]

\* POST /api/employees with a body of the given set
CreateEmployee(bodies) ==
  \E body \in bodies :
    \E r \in {createEmployee(companies, users, employees, body, now)} :
        /\ employees' = r.store
        /\ res' = Respond("createEmployee", 0, body, r)
        /\ hist' = [hist EXCEPT !.deleted = IF r.status = 201 THEN @ \ {r.data.id} ELSE @]
        /\ UNCHANGED <<companies, companyUsers, fleet, wizard, materials, users, projects, tasks, now, reqs, taskIdIndex>>

\* PUT /api/employees/:id with a body of the given set
UpdateEmployee(bodies) ==
  \E id \in ParamIds, body \in bodies :
    \E r \in {updateEmployee(companies, users, employees, id, body, now)} :
        /\ employees' = r.store
        /\ res' = Respond("updateEmployee", id, body, r)
        /\ UNCHANGED <<companies, companyUsers, fleet, wizard, materials, users, projects, tasks, now, reqs, taskIdIndex, hist>>

GetEmployee ==
  \E id \in ParamIds :
    \E r \in {getEmployeeById(users, employees, id)} :
        /\ res' = Respond("getEmployeeById", id, NoData, r)
        /\ UNCHANGED <<companies, companyUsers, fleet, wizard, materials, users, employees, projects, tasks, now, reqs,
                       taskIdIndex, hist>>

DeleteEmployee ==
  \E id \in ParamIds :
    \E r \in {deleteEmployee(employees, id)} :
        /\ employees' = r.store
        /\ res' = Respond("deleteEmployee", id, NoData, r)
        /\ hist' = [hist EXCEPT !.deleted = IF r.status = 200 THEN @ \cup {id} ELSE @]
        /\ UNCHANGED <<companies, companyUsers, fleet, wizard, materials, users, projects, tasks, now, reqs, taskIdIndex>>

\* the employee controller over a database with one company and one user
InitEmployee ==
  /\ companies = StoredCompanies
  /\ companyUsers = {}
  /\ fleet = NoFleet
  /\ wizard = NoWizard
  /\ materials = {}
  /\ users = {SeedUser}
  /\ employees = {}
  /\ projects = {}
  /\ tasks = {}
  /\ now = 1
  /\ res = NoResponse
  /\ reqs = <<>>
  /\ taskIdIndex = TRUE
  /\ hist = NoHistory

NextEmployee ==
  \/ CreateEmployee(EmployeeBodies) \/ UpdateEmployee(EmployeeUpdates)
  \/ GetEmployee \/ DeleteEmployee

SpecEmployee == InitEmployee /\ [][NextEmployee]_vars

-----------------------------------------------------------------------------
(* The employee, user and project controllers over one database *)

SeedProject ==
  [id |-> 1, companyId |-> 1, name |-> <<"p">>, startDate |-> 0, endDate |-> 0,
   budget |-> 0, status |-> Planned, createdBy |-> 1]

ProjectBodies ==
  { [companyId |-> c, name |-> n, createdBy |-> NumV(1)] :
      c \in IdInputs, n \in {<<"q">>, <<"r", " ">>} }

SeedTask ==
  [id |-> 1, companyId |-> 1, projectId |-> 1, taskName |-> <<"s">>, taskType |-> WORK,
   status |-> PLANNED, startDate |-> 0, endDate |-> 0, createdAt |-> 1, updatedAt |-> 1]

\* task payloads without an id; the last company id is not stored
TaskBodies ==
  { [companyId |-> c, projectId |-> NumV(1), taskName |-> n, taskType |-> WORK] :
      c \in IdInputs, n \in {<<"t">>, <<" ", "u">>} }

PlainEmployeeBodies ==
     { [id |-> i, companyId |-> c, employeeCode |-> k, fullName |-> <<"a">>] :
         i \in IdInputs, c \in IdInputs, k \in CodeInputs }
  \cup { [id |-> NumV(1), companyId |-> NumV(1), employeeCode |-> <<"A">>,
          fullName |-> <<"a">>, userId |-> NumV(MaxId)] }

\* updates of the code, the company and the user of an employee
PlainEmployeeUpdates ==
     { [employeeCode |-> k] : k \in CodeInputs }
  \cup { [companyId |-> NumV(MaxId)], [userId |-> NumV(MaxId)] }

\* user payloads: two emails, one of them also in upper case, and one that
\* is no email
UserBodies ==
     { [id |-> i, email |-> e, name |-> <<"u">>] :
         i \in IdInputs, e \in {seedEmail, otherEmail} }
  \cup { [id |-> NumV(MaxId), email |-> toUpperCase(seedEmail), name |-> <<"u">>],
          [id |-> NumV(1), email |-> <<"a", "@", "b">>, name |-> <<"u">>] }

UserUpdates ==
     { [email |-> e] : e \in {seedEmail, otherEmail} }
  \cup { [id |-> NumV(MaxId)] }

ProjectUpdates ==
  { [status |-> Ongoing],
    [status |-> Planned, companyId |-> NumV(MaxId)],
    [status |-> Planned, companyId |-> NumV(1), code |-> <<"x">>],
    [name |-> <<"q">>] }

CreateUser(bodies) ==
  \E body \in bodies :
    \E r \in {createUser(users, body, now)} :
        /\ users' = r.store
        /\ res' = Respond("createUser", 0, body, r)
        /\ UNCHANGED <<companies, companyUsers, fleet, wizard, materials, employees, projects, tasks, now, reqs, taskIdIndex, hist>>

UpdateUser(bodies) ==
  \E id \in ParamIds, body \in bodies :
    \E r \in {updateUser(users, id, body, now)} :
        /\ users' = r.store
        /\ res' = Respond("updateUser", id, body, r)
        /\ UNCHANGED <<companies, companyUsers, fleet, wizard, materials, employees, projects, tasks, now, reqs, taskIdIndex, hist>>

CreateProject(bodies) ==
  \E body \in bodies :
    \E r \in {createProject(companies, projects, body)} :
        /\ projects' = r.store
        /\ res' = Respond("createProject", 0, body, r)
        /\ UNCHANGED <<companies, companyUsers, fleet, wizard, materials, users, employees, tasks, now, reqs, taskIdIndex, hist>>

UpdateProject(bodies) ==
  \E id \in ParamIds, body \in bodies :
    \E r \in {updateProject(companies, projects, id, body)} :
        /\ projects' = r.store
        /\ res' = Respond("updateProject", id, body, r)
        /\ UNCHANGED <<companies, companyUsers, fleet, wizard, materials, users, employees, tasks, now, reqs, taskIdIndex, hist>>

\* a database with one company and one project
Init ==
  /\ companies = StoredCompanies
  /\ companyUsers = {}
  /\ fleet = NoFleet
  /\ wizard = NoWizard
  /\ materials = {}
  /\ users = {}
  /\ employees = {}
  /\ projects = {SeedProject}
  /\ tasks = {}
  /\ now = 1
  /\ res = NoResponse
  /\ reqs = <<>>
  /\ taskIdIndex = TRUE
  /\ hist = NoHistory

Next ==
  \/ CreateEmployee(PlainEmployeeBodies) \/ UpdateEmployee(PlainEmployeeUpdates)
  \/ CreateUser(UserBodies) \/ UpdateUser(UserUpdates)
  \/ CreateProject(ProjectBodies) \/ UpdateProject(ProjectUpdates)

Spec == Init /\ [][Next]_vars

-----------------------------------------------------------------------------
(* Claims about the employee controller *)

\* the request answered last was a POST /api/employees whose body
\* validateEmployeeInput accepts
ValidCreateEmployee(r) == r.op = "createEmployee" /\ validateEmployeeInput(r.body) = <<>>

\* the companyId / employeeCode of the body of r after normalization
BodyCompanyId(r) == NumOf(normalizeEmployeeData(r.body, now), "companyId")
BodyEmployeeCode(r) == StrOf(normalizeEmployeeData(r.body, now), "employeeCode")

\* C1: a createEmployee whose body passes validation and whose companyId
\* matches no stored company is answered 400 with the message 'Company with
\* ID <companyId> does not exist', and the Employee collection is unchanged.
C1_MissingCompanyRejected ==
  [][ (ValidCreateEmployee(res') /\ ~CompanyExists(companies, BodyCompanyId(res')))
      => /\ res'.status = 400
         /\ Contains(res'.message,
                     ErrN("Company with ID does not exist", BodyCompanyId(res')))
         /\ employees' = employees ]_vars

\* a valid create naming a missing company was answered while an employee
\* was stored
C1_Witness ==
  /\ ValidCreateEmployee(res)
  /\ ~CompanyExists(companies, BodyCompanyId(res))
  /\ res.status = 400
  /\ employees # {}

BodyUserId(r) == NumOf(normalizeEmployeeData(r.body, now), "userId")
BodyId(r) == NumOf(normalizeEmployeeData(r.body, now), "id")

\* the company of the body of r exists, and so does its user if it names one
ReferencesExist(r) ==
  /\ CompanyExists(companies, BodyCompanyId(r))
  /\ BodyUserId(r) # 0 => UserExists(users, BodyUserId(r))

\* C2: a createEmployee whose body passes validation, references an existing
\* company (and user, if given) and carries an employeeCode a stored employee
\* holds is answered 409, and every stored employee is unchanged.
C2_DuplicateCodeRejected ==
  [][ (/\ ValidCreateEmployee(res')
       /\ ReferencesExist(res')
       /\ \E e \in employees : e.employeeCode = BodyEmployeeCode(res'))
      => (res'.status = 409 /\ employees' = employees) ]_vars

\* a valid create with a fresh id and the code of a stored employee, sent
\* with surrounding blanks, was answered 409
C2_Witness ==
  /\ ValidCreateEmployee(res)
  /\ ReferencesExist(res)
  /\ res.status = 409
  /\ res.body.employeeCode # BodyEmployeeCode(res)
  /\ \E e \in employees : e.employeeCode = BodyEmployeeCode(res) /\ e.id # BodyId(res)

\* C8: DELETE /api/employees/:id for an id no stored employee holds is
\* answered 404 and changes nothing; for the id of a stored employee it is
\* answered 200 with the id, fullName, employeeCode, companyId and status the
\* employee had and removes it; and every later GET of a deleted id is
\* answered 404 until an employee with that id is created again
\* (hist.deleted: the ids deleted and not created again since).
C8_DeletedStaysNotFound ==
  [][ /\ (res'.op = "deleteEmployee" /\ res'.id > 0
          /\ ~\E e \in employees : e.id = res'.id)
         => (res'.status = 404 /\ res'.data = NoData /\ employees' = employees)
      /\ (res'.op = "deleteEmployee" /\ \E e \in employees : e.id = res'.id)
         => /\ res'.status = 200
            /\ \E e \in employees :
                 /\ e.id = res'.id
                 /\ employees' = employees \ {e}
                 /\ \A f \in {"id", "fullName", "employeeCode", "companyId", "status"} :
                      res'.data[f] = e[f]
      /\ (res'.op = "getEmployeeById" /\ res'.id \in hist.deleted)
         => res'.status = 404 ]_vars

\* the value the create payload of r gives field f after normalization: the
\* number or the string, null (0, the empty string) when it carries none,
\* ACTIVE for a missing status, and for email the email of the user it names
PayloadValue(r, f) ==
  LET n == normalizeEmployeeData(r.body, now)
  IN  IF f \in {"id", "companyId", "userId"} THEN NumOf(n, f)
      ELSE IF f = "status" THEN (IF TruthyS(n, f) THEN n.status ELSE ACTIVE)
      ELSE IF f = "email" THEN getUserEmailById(users, NumOf(n, "userId"))
      ELSE StrOf(n, f)

RoundTripFields ==
  {"id", "companyId", "userId", "employeeCode", "fullName", "phone", "jobTitle",
   "status", "email"}

-----------------------------------------------------------------------------
(* The task controller, one request at a time *)

\* updates that name a company or a project that is not stored, or only
\* rename the task
TaskUpdates ==
  { [companyId |-> NumV(MaxId)],
    [projectId |-> NumV(MaxId), status |-> COMPLETED],
    [taskName |-> <<"t">>],
    [companyId |-> StrV(<<"x">>)] }

\* POST /api/tasks without an id; ids are generated up to MaxId
CreateTask(bodies) ==
  /\ NextTaskId(tasks) <= MaxId
  /\ \E body \in bodies :
       \E r \in {createTask(companies, projects, tasks, body, now, taskIdIndex)} :
         /\ tasks' = r.store
         /\ res' = Respond("createTask", 0, body, r)
         /\ hist' = [hist EXCEPT !.assigned =
                       IF r.status = 201 THEN @ \cup {r.data.id} ELSE @]
         /\ UNCHANGED <<companies, companyUsers, fleet, wizard, materials, users, employees, projects, now, reqs, taskIdIndex>>

UpdateTask ==
  \E id \in ParamIds, body \in TaskUpdates :
    \E r \in {updateTask(tasks, id, body, now, taskIdIndex)} :
      /\ tasks' = r.store
      /\ res' = Respond("updateTask", id, body, r)
      /\ UNCHANGED <<companies, companyUsers, fleet, wizard, materials, users, employees, projects, now, reqs, taskIdIndex, hist>>

DeleteTask ==
  \E id \in ParamIds :
    \E r \in {deleteTask(tasks, id)} :
      /\ tasks' = r.store
      /\ res' = Respond("deleteTask", id, NoData, r)
      /\ UNCHANGED <<companies, companyUsers, fleet, wizard, materials, users, employees, projects, now, reqs, taskIdIndex, hist>>

GetTask ==
  \E id \in ParamIds :
    \E r \in {getTaskById(tasks, id)} :
      /\ res' = Respond("getTaskById", id, NoData, r)
      /\ UNCHANGED <<companies, companyUsers, fleet, wizard, materials, users, employees, projects, tasks, now, reqs,
                     taskIdIndex, hist>>

\* a database with one company, one project and no task
InitTask ==
  /\ companies = StoredCompanies
  /\ companyUsers = {}
  /\ fleet = NoFleet
  /\ wizard = NoWizard
  /\ materials = {}
  /\ users = {}
  /\ employees = {}
  /\ projects = {SeedProject}
  /\ tasks = {}
  /\ now = 1
  /\ res = NoResponse
  /\ reqs = <<>>
  /\ taskIdIndex \in BOOLEAN
  /\ hist = NoHistory

NextTask == CreateTask(TaskBodies) \/ UpdateTask \/ DeleteTask \/ GetTask

SpecTask == InitTask /\ [][NextTask]_vars

\* C5: an id once assigned to a created task is never assigned again to a
\* task created later, also after the task that held it has been deleted.
C5_IdsNeverReassigned ==
  [][ (res'.op = "createTask" /\ res'.status = 201)
      => res'.data.id \notin hist.assigned ]_vars

\* the body of r names a company or a project that is not stored
NamesMissingReference(r) ==
  \/ /\ Truthy(r.body, "companyId") /\ Castable(r.body.companyId)
     /\ ~CompanyExists(companies, CastNum(r.body.companyId))
  \/ /\ Truthy(r.body, "projectId") /\ Castable(r.body.projectId)
     /\ ~ProjectExists(projects, CastNum(r.body.projectId))

\* C6: an update of a stored task that names a company or a project that is
\* not stored is answered 400 and leaves the tasks unchanged, so that after
\* every task create and update the companyId and the projectId of every
\* stored task reference a stored company and a stored project.
C6_TaskReferencesExist ==
  [][ /\ (/\ res'.op = "updateTask"
          /\ \E k \in tasks : k.id = res'.id
          /\ NamesMissingReference(res'))
         => (res'.status = 400 /\ tasks' = tasks)
      /\ \A k \in tasks' : /\ CompanyExists(companies, k.companyId)
                           /\ ProjectExists(projects, k.projectId) ]_vars

-----------------------------------------------------------------------------
(* Concurrent create requests.  A handler runs up to its next await, then    *)
(* another request may run.  reqs is the list of the requests received, each *)
(* with its position in the handler (pc), the normalized data it works on,   *)
(* the id it computed and, once answered, its status.                        *)

MaxRequests == 2

Request(kind, pc, body, data, id, status) ==
  [kind |-> kind, pc |-> pc, body |-> body, data |-> data, id |-> id, status |-> status]

\* request i answered: its record and the response
Answer(i, r) ==
  /\ reqs' = [reqs EXCEPT ![i] = [@ EXCEPT !.pc = "done", !.status = r.status]]
  /\ res' = Respond(reqs[i].kind, reqs[i].id, reqs[i].body, r)

\* bodies of the requests received so far: concurrent requests differ
Received == {reqs[i].body : i \in DOMAIN reqs}

\* createTask up to its second await: the last task has been read
StartCreateTask ==
  /\ Len(reqs) < MaxRequests
  /\ \E body \in TaskBodies \ Received :
       LET n == AssignTaskId(tasks, body, now)
       IN  reqs' = Append(reqs, Request("createTask", "check", body, n, n.id.num, 0))
  /\ UNCHANGED <<companies, companyUsers, fleet, wizard, materials, users, employees, projects, tasks, now, res, taskIdIndex, hist>>

\* createTask from the referential check to save()
CheckTaskReferences ==
  \E i \in DOMAIN reqs :
    /\ reqs[i].kind = "createTask" /\ reqs[i].pc = "check"
    /\ LET n == reqs[i].data
           referentialCheck ==
             validateTaskReferentialIntegrity(companies, projects, NumOf(n, "companyId"),
                                              NumOf(n, "projectId"))
       IN  IF referentialCheck.isValid
           THEN /\ reqs' = [reqs EXCEPT ![i] = [@ EXCEPT !.pc = "save"]]
                /\ res' = res
           ELSE Answer(i, Outcome(400, referentialCheck.errors, NoData, tasks,
                                  FALSE, TRUE, FALSE))
    /\ UNCHANGED <<companies, companyUsers, fleet, wizard, materials, users, employees, projects, tasks, now, taskIdIndex, hist>>

\* createTask's save() and answer
SaveTaskStep ==
  \E i \in DOMAIN reqs :
    /\ reqs[i].kind = "createTask" /\ reqs[i].pc = "save"
    /\ LET r == SaveTask(tasks, reqs[i].data, now, taskIdIndex)
       IN  tasks' = r.store /\ Answer(i, r)
    /\ UNCHANGED <<companies, companyUsers, fleet, wizard, materials, users, employees, projects, now, taskIdIndex, hist>>

\* createProject up to the end of its Promise.all: the next id, the company
\* and the code have been read
StartCreateProject ==
  /\ Len(reqs) < MaxRequests
  /\ \E body \in ProjectBodies \ Received :
       LET n == normalizeProjectData(body)
           nextProjectId == generateNextProjectId(projects)
       IN  IF validateCompanyExistence(companies, NumOf(n, "companyId"))
           THEN /\ reqs' = Append(reqs, Request("createProject", "save", body, n,
                                                nextProjectId, 0))
                /\ res' = res
           ELSE LET r == createProject(companies, projects, body)
                IN  /\ reqs' = Append(reqs, Request("createProject", "done", body, n,
                                                    nextProjectId, r.status))
                    /\ res' = Respond("createProject", nextProjectId, body, r)
  /\ UNCHANGED <<companies, companyUsers, fleet, wizard, materials, users, employees, projects, tasks, now, taskIdIndex, hist>>

\* createProject's save() and answer
SaveProjectStep ==
  \E i \in DOMAIN reqs :
    /\ reqs[i].kind = "createProject" /\ reqs[i].pc = "save"
    /\ LET r == SaveProject(projects, ProjectDocument(reqs[i].id, reqs[i].data), TRUE, TRUE)
       IN  projects' = r.store /\ Answer(i, r)
    /\ UNCHANGED <<companies, companyUsers, fleet, wizard, materials, users, employees, tasks, now, taskIdIndex, hist>>

\* the database the concurrent requests find: one project, at most one task,
\* a Task collection with or without a unique index on id
InitRace ==
  /\ companies = StoredCompanies
  /\ companyUsers = {}
  /\ fleet = NoFleet
  /\ wizard = NoWizard
  /\ materials = {}
  /\ users = {}
  /\ employees = {}
  /\ projects = {SeedProject}
  /\ tasks \in {{}, {SeedTask}}
  /\ now = 1
  /\ res = NoResponse
  /\ reqs = <<>>
  /\ taskIdIndex \in BOOLEAN
  /\ hist = NoHistory

NextRace ==
  \/ StartCreateTask \/ CheckTaskReferences \/ SaveTaskStep
  \/ StartCreateProject \/ SaveProjectStep

SpecRace == InitRace /\ [][NextRace]_vars

\* C3: two concurrent creates whose id is read as max(id) + 1 never leave
\* two documents with the same id in the collection, and of two requests that
\* computed the same id at most one is answered 201.
C3_ConcurrentCreatesDistinctIds ==
  /\ \A k1, k2 \in tasks : k1.id = k2.id => k1 = k2
  /\ \A p1, p2 \in projects : p1.id = p2.id => p1 = p2
  /\ \A i, j \in DOMAIN reqs :
       (i < j /\ reqs[i].kind = reqs[j].kind /\ reqs[i].id = reqs[j].id)
       => ~(reqs[i].status = 201 /\ reqs[j].status = 201)

-----------------------------------------------------------------------------
(* Claims about the checks of the employee, user and project handlers *)

\* C4: an update of a stored employee that carries an employeeCode no other
\* employee holds is never answered 409, however many other employees are
\* stored; nor is an update of a stored user with an email no other user
\* holds.
C4_OwnIdOnlyExcluded ==
  [][ /\ (/\ res'.op = "updateEmployee"
          /\ \E e \in employees : e.id = res'.id
          /\ TruthyS(res'.body, "employeeCode")
          /\ \A e \in employees :
               e.id # res'.id => e.employeeCode # trim(res'.body.employeeCode))
         => res'.status # 409
      /\ (/\ res'.op = "updateUser"
          /\ \E u \in users : u.id = res'.id
          /\ TruthyS(res'.body, "email")
          /\ \A u \in users : u.id # res'.id => u.email # SanitizeEmail(res'.body.email))
         => res'.status # 409 ]_vars

\* the create and update handlers of employees, users and projects
CheckedOps ==
  {"createEmployee", "updateEmployee", "createUser", "updateUser",
   "createProject", "updateProject"}

\* the request r was an update of a document that is not stored
UpdateOfMissing(r) ==
  \/ r.op = "updateEmployee" /\ ~\E e \in employees : e.id = r.id
  \/ r.op = "updateUser" /\ ~\E u \in users : u.id = r.id
  \/ r.op = "updateProject" /\ ~\E p \in projects : p.id = r.id

NoCollectionChanged ==
  /\ employees' = employees /\ users' = users /\ projects' = projects
  /\ tasks' = tasks /\ companies' = companies

\* C7 as stated: the write is issued only when the referential and the
\* uniqueness check both succeeded, and a request one of whose checks failed
\* ends with 400 or 409 and inserts or modifies no document.
C7_FailedCheckEnds400or409 ==
  [][ res'.op \in CheckedOps
      => /\ res'.wrote => (res'.refOk /\ res'.uniqOk)
         /\ (~res'.refOk \/ ~res'.uniqOk)
            => (res'.status \in {400, 409} /\ NoCollectionChanged) ]_vars

\* C7, amended: as above, but an update of a document that is not stored is
\* answered 404 whatever its checks found.
C7_FailedCheckAbortsBeforeWrite ==
  [][ res'.op \in CheckedOps
      => /\ res'.wrote => (res'.refOk /\ res'.uniqOk)
         /\ (~res'.refOk \/ ~res'.uniqOk)
            => /\ NoCollectionChanged
               /\ ~res'.wrote
               /\ IF UpdateOfMissing(res') THEN res'.status = 404
                  ELSE res'.status \in {400, 409} ]_vars

\* a create repeating the email of a stored user, in upper case, was
\* answered 409 by the uniqueness check
C7_Witness ==
  /\ res.op = "createUser" /\ ~res.uniqOk /\ res.status = 409
  /\ res.body.email # SanitizeEmail(res.body.email)
  /\ \E u \in users : u.email = SanitizeEmail(res.body.email) /\ NumV(u.id) # res.body.id

-----------------------------------------------------------------------------
(* The normalizers applied to the payloads the validators accept, and then   *)
(* to their own output.  reqs holds the payload; res.id counts the passes,   *)
(* res.body is the input of the last pass and res.data its output.  The      *)
(* clock moves between the passes.                                           *)

TextChars == {" ", "a", "1"}
\* the strings of at most MaxLen characters
Texts == UNION {[1..k -> TextChars] : k \in 0..MaxLen}

\* an object with field f set to v, for each v of vs, and without f
Optional(f, vs) == {NoData} \cup {Put(NoData, f, v) : v \in vs}

\* ids as numbers and as strings with blanks, digits and letters
LongDigits == <<"1">> \o [i \in 1..21 |-> "0"]
NumberInputs ==
  {NumV(1)} \cup {StrV(s) : s \in {<<"1">>, <<" ", "1">>, <<"1", " ">>, <<" ">>, <<"1", "a">>, LongDigits}}

EmployeePayloads ==
  { Merge(Merge([id |-> i, companyId |-> NumV(1), fullName |-> s, employeeCode |-> s,
                 phone |-> s, jobTitle |-> s, photoUrl |-> s], st), c) :
      i \in NumberInputs, s \in Texts,
      st \in Optional("status", {ACTIVE, toLowerCase(ACTIVE)}),
      c \in Optional("createdAt", {DateStr(1), BadDate}) }

UserPayloads ==
  { Merge(Merge([id |-> i, email |-> e, name |-> s], a), c) :
      i \in {NumV(1), StrV(<<" ", "1">>)},
      e \in {seedEmail, toUpperCase(seedEmail), <<" ">> \o seedEmail},
      s \in Texts,
      a \in Optional("isActive", {BoolV(TRUE), BoolV(FALSE), StrV(<<"a">>)}),
      c \in Optional("createdAt", {DateStr(1), BadDate}) }

TaskPayloads ==
  { Merge(Merge(Merge([companyId |-> i, projectId |-> NumV(1), taskName |-> s,
                       description |-> s, notes |-> s, taskType |-> WORK], st), d), e) :
      i \in NumberInputs, s \in Texts,
      st \in Optional("status", {IN_PROGRESS}),
      d \in Optional("startDate", {DateStr(1), DateV(1)}),
      e \in Optional("endDate", {DateStr(MaxTime), BadDate}) }

ProjectPayloads ==
  { Merge(Merge(Merge([companyId |-> i, name |-> s, code |-> s, description |-> s,
                       location |-> s], b), st), d) :
      i \in NumberInputs, s \in Texts,
      b \in Optional("budget", {NumV(0), NumV(5), NumV(-1), StrV(<<"1">>), StrV(<<" ">>)}),
      st \in Optional("status", {ON_HOLD}),
      d \in Optional("startDate", {DateStr(1), BadDate}) }

\* the input of the next pass: the payload, then the output of the last pass
PassInput == IF res.id = 0 THEN reqs[1].body ELSE res.data

\* one more pass of the normalizer op, with output out
Pass(op, out) ==
  /\ res' = [NoResponse EXCEPT !.op = op, !.id = res.id + 1, !.body = PassInput,
                               !.data = out]
  /\ now' = IF now < MaxTime THEN now + 1 ELSE now
  /\ UNCHANGED <<companies, companyUsers, fleet, wizard, materials, users, employees, projects, tasks, reqs, taskIdIndex, hist>>

NormalizeEmployee ==
  /\ reqs[1].kind = "employee" /\ res.id < 2
  /\ validateEmployeeInput(reqs[1].body) = <<>>
  /\ Pass("normalizeEmployeeData", normalizeEmployeeData(PassInput, now))

NormalizeUser ==
  /\ reqs[1].kind = "user" /\ res.id < 2
  /\ validateUserInput(reqs[1].body) = <<>>
  /\ Pass("normalizeUserData", normalizeUserData(PassInput, now))

NormalizeTask ==
  /\ reqs[1].kind = "task" /\ res.id < 2
  /\ validateTaskInput(reqs[1].body) = <<>>
  /\ Pass("normalizeTaskData", normalizeTaskData(PassInput, now))

NormalizeProject ==
  /\ reqs[1].kind = "project" /\ res.id < 2
  /\ validateProjectInput(reqs[1].body) = <<>>
  /\ Pass("normalizeProjectData", normalizeProjectData(PassInput))

InitNormalize ==
  /\ companies = StoredCompanies
  /\ companyUsers = {}
  /\ fleet = NoFleet
  /\ wizard = NoWizard
  /\ materials = {}
  /\ users = {}
  /\ employees = {}
  /\ projects = {}
  /\ tasks = {}
  /\ now = 1
  /\ res = NoResponse
  /\ reqs \in    {<<[kind |-> "employee", body |-> p]>> : p \in EmployeePayloads}
            \cup {<<[kind |-> "user", body |-> p]>> : p \in UserPayloads}
            \cup {<<[kind |-> "task", body |-> p]>> : p \in TaskPayloads}
            \cup {<<[kind |-> "project", body |-> p]>> : p \in ProjectPayloads}
  /\ taskIdIndex = TRUE
  /\ hist = NoHistory

NextNormalize == NormalizeEmployee \/ NormalizeUser \/ NormalizeTask \/ NormalizeProject

SpecNormalize == InitNormalize /\ [][NextNormalize]_vars

\* C10: for every payload its validator accepts, normalizeEmployeeData,
\* normalizeUserData, normalizeTaskData and normalizeProjectData applied to
\* their own output return that output unchanged.
C10_NormalizersIdempotent == res.id = 2 => res.data = res.body

-----------------------------------------------------------------------------
(* The project controller, one request at a time *)

ProjectDateInputs == {DateStr(t) : t \in 1..MaxTime} \cup {BadDate, NullV}

\* project payloads with and without a name and with dates in either order;
\* the last company id is not stored
ProjectDateBodies ==
  { Merge(Merge([companyId |-> c, createdBy |-> NumV(1)], nm), Merge(sd, ed)) :
      c \in IdInputs,
      nm \in Optional("name", {<<"q">>}),
      sd \in Optional("startDate", ProjectDateInputs),
      ed \in Optional("endDate", ProjectDateInputs) }

\* project payloads with a negative budget, a status or a code
ProjectExtraBodies ==
  { Merge(Merge(Merge([companyId |-> NumV(1), createdBy |-> NumV(1)], nm), d), x) :
      nm \in Optional("name", {<<"q">>}),
      d \in {NoData, [startDate |-> DateStr(1), endDate |-> DateStr(1)]},
      x \in {[budget |-> NumV(-1)], [status |-> ACTIVE], [status |-> Ongoing],
             [code |-> <<"x">>], [budget |-> NumV(-1), status |-> Ongoing]} }

\* updates of the dates, with a status the schema accepts
ProjectDateUpdates ==
  { Merge([status |-> Ongoing], Merge(sd, ed)) :
      sd \in Optional("startDate", {DateStr(t) : t \in 1..MaxTime}),
      ed \in Optional("endDate", {DateStr(t) : t \in 1..MaxTime}) }

DeleteProject ==
  \E id \in ParamIds :
    \E r \in {deleteProject(projects, id)} :
        /\ projects' = r.store
        /\ res' = Respond("deleteProject", id, NoData, r)
        /\ UNCHANGED <<companies, companyUsers, fleet, wizard, materials, users, employees, tasks, now, reqs, taskIdIndex, hist>>

InitProject ==
  /\ companies = StoredCompanies
  /\ companyUsers = {}
  /\ fleet = NoFleet
  /\ wizard = NoWizard
  /\ materials = {}
  /\ users = {}
  /\ employees = {}
  /\ projects = {SeedProject}
  /\ tasks = {}
  /\ now = 1
  /\ res = NoResponse
  /\ reqs = <<>>
  /\ taskIdIndex = TRUE
  /\ hist = NoHistory

NextProject ==
  \/ CreateProject(ProjectDateBodies \cup ProjectExtraBodies)
  \/ UpdateProject(ProjectUpdates \cup ProjectDateUpdates)
  \/ DeleteProject

SpecProject == InitProject /\ [][NextProject]_vars

EndDateMessage == Err("End date must be after start date")

DatesOutOfOrder(doc) ==
  doc.startDate # 0 /\ doc.endDate # 0 /\ doc.endDate <= doc.startDate

\* C12: after any sequence of create and update requests every stored
\* project and every stored task that has both startDate and endDate has
\* its endDate strictly after its startDate, and a PUT whose body would
\* leave endDate not after startDate is rejected and changes nothing.
C12_StoredDatesOrdered ==
  /\ \A p \in projects : ~DatesOutOfOrder(p)
  /\ \A k \in tasks : ~DatesOutOfOrder(k)
  /\ (res.op \in {"updateProject", "updateTask"} /\ EndNotAfterStart(res.body))
       => res.status \notin {200, 201}

\* a create whose body passes the validator and names a stored company and
\* no code that is in use
AcceptableProject(r) ==
  /\ r.op = "createProject"
  /\ validateProjectInput(r.body) = <<>>
  /\ validateCompanyExistence(companies, NumOf(normalizeProjectData(r.body), "companyId"))
  /\ r.uniqOk

\* C13: a POST /api/projects whose body passes validateProjectInput, names
\* an existing company, uses an unused code and carries no status and no
\* budget is stored with status 'PLANNING' and budget 0 and answered 201;
\* and a status the validator accepts is accepted by the stored schema, so
\* such a body with a status is stored with that status.
C13_ProjectDefaultsStored ==
  /\ (AcceptableProject(res) /\ ~Has(res.body, "status") /\ ~Has(res.body, "budget"))
       => /\ res.status = 201
          /\ res.data \in projects
          /\ res.data.status = PLANNING /\ res.data.budget = 0
  /\ (AcceptableProject(res) /\ Has(res.body, "status"))
       => /\ res.status = 201
          /\ res.data \in projects
          /\ res.data.status = res.body.status

\* C14: a PUT /api/tasks/:id whose body names only some fields leaves every
\* other stored field of the task as it was, apart from updatedAt; its
\* status and createdAt are unchanged when the body does not contain them.
C14_PartialUpdateKeepsRest ==
  [][ (res'.op = "updateTask" /\ res'.status = 200)
      => \E old \in tasks :
           /\ old.id = res'.id
           /\ \A f \in DOMAIN old \ ({"updatedAt"} \cup DOMAIN res'.body) :
                res'.data[f] = old[f] ]_vars

-----------------------------------------------------------------------------
(* The create handlers on payloads that break the validators' rules *)

LongText(n) == [i \in 1..n |-> "a"]
LongEmail == LongText(MaxEmailLength - 3) \o <<"@", "b", ".", "c">>

\* the object d without the fields outside fs
Restrict(d, fs) == [f \in DOMAIN d \cap fs |-> d[f]]
Range(s) == {s[i] : i \in 1..Len(s)}

\* the company named is not stored, so that none of these is persisted
FaultyEmployeeBodies ==
  { Merge(Merge(Merge(i, c), Merge(fn, ec)), st) :
      i \in Optional("id", {NumV(1), StrV(<<"x">>)}),
      c \in Optional("companyId", {NumV(MaxId)}),
      fn \in Optional("fullName", {<<"a">>, <<" ">>, LongText(MaxNameLength + 1)}),
      ec \in Optional("employeeCode", {<<"A">>, LongText(MaxCodeLength + 1)}),
      st \in Optional("status", {<<"x">>}) }

FaultyUserBodies ==
  { Merge(Merge(i, e), Merge(nm, a)) :
      i \in Optional("id", {NumV(1), StrV(<<"x">>)}),
      e \in Optional("email", {seedEmail, <<"a", "@", "b">>, LongEmail}),
      nm \in Optional("name", {<<"u">>, <<" ">>, LongText(MaxNameLength + 1)}),
      a \in Optional("isActive", {StrV(<<"x">>)}) }

FaultyDates ==
  {NoData, [startDate |-> BadDate], [startDate |-> DateStr(MaxTime), endDate |-> DateStr(1)]}

FaultyTaskBodies ==
  { Merge(Merge(Merge(c, pj), Merge(nm, ty)), Merge(d, st)) :
      c \in Optional("companyId", {NumV(MaxId), StrV(<<"x">>)}),
      pj \in Optional("projectId", {NumV(1)}),
      nm \in Optional("taskName", {<<"t">>}),
      ty \in Optional("taskType", {WORK, <<"x">>}),
      d \in FaultyDates,
      st \in Optional("status", {<<"x">>}) }

FaultyProjectBodies ==
  { Merge(Merge(Merge(c, nm), Merge(cd, b)), Merge(d, st)) :
      c \in Optional("companyId", {NumV(MaxId)}),
      nm \in Optional("name", {<<"q">>, <<" ">>}),
      cd \in Optional("code", {LongText(MaxCodeLength + 1)}),
      b \in Optional("budget", {NumV(-1), StrV(<<"x">>)}),
      d \in FaultyDates,
      st \in Optional("status", {<<"x">>}) }

InitCreate ==
  /\ companies = StoredCompanies
  /\ companyUsers = {}
  /\ fleet = NoFleet
  /\ wizard = NoWizard
  /\ materials = {}
  /\ users = {}
  /\ employees = {}
  /\ projects = {SeedProject}
  /\ tasks = {}
  /\ now = 1
  /\ res = NoResponse
  /\ reqs = <<>>
  /\ taskIdIndex = TRUE
  /\ hist = NoHistory

NextCreate ==
  \/ CreateEmployee(FaultyEmployeeBodies)
  \/ CreateUser(FaultyUserBodies)
  \/ CreateTask(FaultyTaskBodies)
  \/ CreateProject(FaultyProjectBodies)

SpecCreate == InitCreate /\ [][NextCreate]_vars

CreateOps == {"createEmployee", "createUser", "createTask", "createProject"}

\* the validator the handler op calls
ValidatorOf(op, body) ==
  CASE op = "createEmployee" -> validateEmployeeInput(body)
    [] op = "createUser" -> validateUserInput(body)
    [] op = "createTask" -> validateTaskInput(body)
    [] op = "createProject" -> validateProjectInput(body)

\* the fields each rule of a validator reads, rule group by rule group
RuleFields(op) ==
  CASE op = "createEmployee" ->
         {{"id"}, {"companyId"}, {"userId"}, {"fullName"}, {"employeeCode"}, {"status"}}
    [] op = "createUser" -> {{"id"}, {"email"}, {"name"}, {"isActive"}}
    [] op = "createTask" ->
         {{"companyId"}, {"projectId"}, {"taskName"}, {"taskType"},
          {"startDate", "endDate"}, {"status"}}
    [] op = "createProject" ->
         {{"name"}, {"companyId"}, {"code"}, {"budget"}, {"startDate", "endDate"},
          {"status"}}

\* a payload that breaks no rule
CleanBody(op) ==
  CASE op = "createEmployee" ->
         [id |-> NumV(1), companyId |-> NumV(1), fullName |-> <<"a">>,
          employeeCode |-> <<"A">>]
    [] op = "createUser" -> [id |-> NumV(1), email |-> seedEmail, name |-> <<"u">>]
    [] op = "createTask" ->
         [companyId |-> NumV(1), projectId |-> NumV(1), taskName |-> <<"t">>,
          taskType |-> WORK]
    [] op = "createProject" -> [companyId |-> NumV(1), name |-> <<"q">>]

\* the clean payload with the fields fs as body has them
OnlyFaultsOf(op, body, fs) ==
  Merge(Restrict(CleanBody(op), DOMAIN CleanBody(op) \ fs), Restrict(body, fs))

-----------------------------------------------------------------------------
(* Claims about what createEmployee stores *)

RECURSIVE StripSpaces(_)
StripSpaces(s) ==
  IF s = <<>> THEN <<>>
  ELSE IF IsSpace(Head(s)) THEN StripSpaces(Tail(s))
  ELSE <<Head(s)>> \o StripSpaces(Tail(s))

\* s has no blank at either end and no two blanks in a row
SingleSpaced(s) ==
  /\ s # <<>> => (~IsSpace(s[1]) /\ ~IsSpace(s[Len(s)]))
  /\ \A i \in 1..(Len(s) - 1) : ~(IsSpace(s[i]) /\ IsSpace(s[i + 1]))

\* the number of words of s: the places where a word begins
WordCount(s) ==
  Cardinality({i \in 1..Len(s) : ~IsSpace(s[i]) /\ (i = 1 \/ IsSpace(s[i - 1]))})

\* no stored employee has the id or the code of the body of r
IdAndCodeUnused(r) ==
  \A e \in employees : e.id # BodyId(r) /\ e.employeeCode # BodyEmployeeCode(r)

C17_EmployeeCodesUpperCased ==
  /\ \A e \in employees : e.employeeCode = toUpperCase(e.employeeCode)
  /\ \A e1, e2 \in employees :
       toUpperCase(e1.employeeCode) = toUpperCase(e2.employeeCode) => e1 = e2


-----------------------------------------------------------------------------
(* The catch blocks of the handlers: the answer to an exception thrown by an
   awaited storage call *)

\* what a storage call throws: a schema validation error, a duplicate-key
\* error of the server (code 11000), a failure of the connection.
\* code 0: the error has no code
SchemaRejection == [name |-> "ValidationError", code |-> 0]
DuplicateKey == [name |-> "MongoServerError", code |-> 11000]
ConnectionLost == [name |-> "MongoNetworkError", code |-> 0]
StorageErrors == {SchemaRejection, DuplicateKey, ConnectionLost}

\* res.status(status).json(body)
Reply(status, body) == [status |-> status, body |-> body]
\* { success: false, message }
Failure(message) == [success |-> FALSE, message |-> Err(message)]
\* { success: false, message, timestamp }, the employee controller's body
FailureAt(message, t) == [success |-> FALSE, message |-> Err(message), timestamp |-> t]
\* the body with the messages of the validation error added
WithErrors(body, error) == Merge(body, [errors |-> <<Err(error.name)>>])

getEmployeeByIdCatch(error, t) ==
  Reply(500, FailureAt("Database error during employee retrieval", t))

createEmployeeCatch(error, t) ==
  IF error.name = "ValidationError"
  THEN Reply(400, WithErrors(FailureAt("Data validation error", t), error))
  ELSE IF error.code = 11000
  THEN Reply(409, FailureAt("Employee with this field already exists", t))
  ELSE Reply(500, FailureAt("Server error during employee creation", t))

updateEmployeeCatch(error, t) ==
  IF error.name = "ValidationError"
  THEN Reply(400, WithErrors(FailureAt("Data validation error during update", t), error))
  ELSE IF error.code = 11000
  THEN Reply(409, FailureAt("Employee with this employee code already exists", t))
  ELSE Reply(400, FailureAt("Update process failed", t))

deleteEmployeeCatch(error, t) ==
  Reply(500, FailureAt("Database error during employee deletion", t))

createUserCatch(error) ==
  IF error.name = "ValidationError"
  THEN Reply(400, WithErrors(Failure("Data validation error"), error))
  ELSE IF error.code = 11000
  THEN Reply(409, Failure("User with this field already exists"))
  ELSE Reply(500, Failure("Server error during user creation"))

updateUserCatch(error) ==
  IF error.name = "ValidationError"
  THEN Reply(400, WithErrors(Failure("Data validation error during update"), error))
  ELSE Reply(400, Failure("Update process failed"))

deleteUserCatch(error) ==
  Reply(500, Failure("Database error during user deletion"))

createProjectCatch(error) ==
  IF error.code = 11000
  THEN Reply(409, Failure("Project with this field already exists"))
  ELSE Reply(500, Failure("Server error during project creation"))

updateProjectCatch(error) ==
  IF error.code = 11000
  THEN Reply(409, Failure("Project with this field already exists"))
  ELSE Reply(400, Failure("Update process failed"))

deleteProjectCatch(error) ==
  Reply(500, Failure("Database error during project deletion"))

getTaskByIdCatch(error) == Reply(500, Failure("Error fetching task"))

createTaskCatch(error) ==
  IF error.name = "ValidationError"
  THEN Reply(400, WithErrors(Failure("Data validation error"), error))
  ELSE IF error.code = 11000
  THEN Reply(409, Failure("Task with this ID already exists"))
  ELSE Reply(500, Failure("Error creating task"))

updateTaskCatch(error) == Reply(500, Failure("Error updating task"))

deleteTaskCatch(error) == Reply(500, Failure("Error deleting task"))

-----------------------------------------------------------------------------
(* The material handlers. The Material schema is not part of the sources:
   a material is stored as the request gives it, under a generated _id, and
   a rejection by the schema is one of the errors the storage call throws *)

NoError == [name |-> "none", code |-> 0]
\* { error: err.message }
ErrorBody(message) == [error |-> Err(message)]
\* the _id of the next document
NextMaterialId(mats) == IF mats = {} THEN 1 ELSE Max({m._id : m \in mats}) + 1
\* an :id that is no ObjectId cannot be cast
IsObjectId(id) == id > 0
CastError == [name |-> "CastError", code |-> 0]

MaterialResult(status, body, store) == [status |-> status, body |-> body, store |-> store]

\* POST /api/materials
createMaterial(mats, body, thrown) ==
  IF thrown # NoError
  THEN MaterialResult(400, ErrorBody(thrown.name), mats)
  ELSE LET material == Merge(body, [_id |-> NextMaterialId(mats)])
       IN  MaterialResult(201, material, mats \cup {material})

\* GET /api/materials/:id
getMaterial(mats, id, thrown) ==
  LET error == IF IsObjectId(id) THEN thrown ELSE CastError
      found == {m \in mats : m._id = id}
  IN  IF error # NoError
      THEN MaterialResult(500, ErrorBody(error.name), mats)
      ELSE IF found = {}
      THEN MaterialResult(404, ErrorBody("Material not found"), mats)
      ELSE MaterialResult(200, CHOOSE m \in found : TRUE, mats)

\* PUT /api/materials/:id
updateMaterial(mats, id, body, thrown) ==
  LET error == IF IsObjectId(id) THEN thrown ELSE CastError
      found == {m \in mats : m._id = id}
  IN  IF error # NoError
      THEN MaterialResult(400, ErrorBody(error.name), mats)
      ELSE IF found = {}
      THEN MaterialResult(404, ErrorBody("Material not found"), mats)
      ELSE LET old == CHOOSE m \in found : TRUE
               material == Merge(old, body)
           IN  MaterialResult(200, material, (mats \ {old}) \cup {material})

\* DELETE /api/materials/:id
deleteMaterial(mats, id, thrown) ==
  LET error == IF IsObjectId(id) THEN thrown ELSE CastError
      found == {m \in mats : m._id = id}
  IN  IF error # NoError
      THEN MaterialResult(500, ErrorBody(error.name), mats)
      ELSE IF found = {}
      THEN MaterialResult(404, ErrorBody("Material not found"), mats)
      ELSE MaterialResult(200, [message |-> Err("Material deleted")], mats \ found)

-----------------------------------------------------------------------------
(* Requests whose storage call throws, and the material routes *)

\* the employee a POST of a plain payload stores
SeedEmployee ==
  EmployeeData(normalizeEmployeeData([id |-> NumV(1), companyId |-> NumV(1),
                                      employeeCode |-> <<"A">>, fullName |-> <<"a">>], 1), 1)

CreateHandlers == {"createEmployee", "createUser", "createProject", "createTask"}
UpdateHandlers == {"updateEmployee", "updateUser", "updateProject", "updateTask"}
ReadHandlers == {"getEmployeeById", "getTaskById"}
DeleteHandlers == {"deleteEmployee", "deleteUser", "deleteProject", "deleteTask"}
EntityHandlers == CreateHandlers \cup UpdateHandlers \cup ReadHandlers \cup DeleteHandlers

\* the bodies a handler is called with
BodiesOf(op) ==
  CASE op = "createEmployee" -> PlainEmployeeBodies
    [] op = "updateEmployee" -> PlainEmployeeUpdates
    [] op = "createUser" -> UserBodies
    [] op = "updateUser" -> UserUpdates
    [] op = "createProject" -> ProjectBodies
    [] op = "updateProject" -> ProjectUpdates
    [] op = "createTask" -> TaskBodies
    [] op = "updateTask" -> TaskUpdates
    [] OTHER -> {NoData}

\* what the handler does with the request when no storage call throws
Handled(op, id, body) ==
  CASE op = "createEmployee" -> createEmployee(companies, users, employees, body, now)
    [] op = "updateEmployee" -> updateEmployee(companies, users, employees, id, body, now)
    [] op = "getEmployeeById" -> getEmployeeById(users, employees, id)
    [] op = "deleteEmployee" -> deleteEmployee(employees, id)
    [] op = "createUser" -> createUser(users, body, now)
    [] op = "updateUser" -> updateUser(users, id, body, now)
    [] op = "deleteUser" -> deleteUser(users, id)
    [] op = "createProject" -> createProject(companies, projects, body)
    [] op = "updateProject" -> updateProject(companies, projects, id, body)
    [] op = "deleteProject" -> deleteProject(projects, id)
    [] op = "createTask" -> createTask(companies, projects, tasks, body, now, taskIdIndex)
    [] op = "updateTask" -> updateTask(tasks, id, body, now, taskIdIndex)
    [] op = "getTaskById" -> getTaskById(tasks, id)
    [] op = "deleteTask" -> deleteTask(tasks, id)

\* the request gets as far as the handler's storage call: the write of a
\* create or update handler, the query of a read or delete handler
ReachesStorage(op, id, body) ==
  \E r \in {Handled(op, id, body)} :
    IF op \in CreateHandlers \cup UpdateHandlers THEN r.wrote ELSE r.status # 400

\* the errors the storage call of a handler throws
ErrorsOf(op) ==
  IF op \in CreateHandlers \cup UpdateHandlers THEN StorageErrors ELSE {ConnectionLost}

\* the handler's catch block
Caught(op, error, t) ==
  CASE op = "createEmployee" -> createEmployeeCatch(error, t)
    [] op = "updateEmployee" -> updateEmployeeCatch(error, t)
    [] op = "getEmployeeById" -> getEmployeeByIdCatch(error, t)
    [] op = "deleteEmployee" -> deleteEmployeeCatch(error, t)
    [] op = "createUser" -> createUserCatch(error)
    [] op = "updateUser" -> updateUserCatch(error)
    [] op = "deleteUser" -> deleteUserCatch(error)
    [] op = "createProject" -> createProjectCatch(error)
    [] op = "updateProject" -> updateProjectCatch(error)
    [] op = "deleteProject" -> deleteProjectCatch(error)
    [] op = "createTask" -> createTaskCatch(error)
    [] op = "updateTask" -> updateTaskCatch(error)
    [] op = "getTaskById" -> getTaskByIdCatch(error)
    [] op = "deleteTask" -> deleteTaskCatch(error)

\* the response of a request: the handler, the request, what was thrown and
\* the status and the JSON body answered
Replied(op, id, body, error, status, json) ==
  [op |-> op, id |-> id, body |-> body, error |-> error, status |-> status, json |-> json]

\* a request to an entity route whose storage call throws: nothing is
\* written and the catch block answers
StorageFailure ==
  \E op \in EntityHandlers :
    \E id \in (IF op \in CreateHandlers THEN {0} ELSE ParamIds), body \in BodiesOf(op) :
      /\ ReachesStorage(op, id, body)
      /\ \E error \in ErrorsOf(op) :
           \E a \in {Caught(op, error, now)} :
             res' = Replied(op, id, body, error, a.status, a.body)
      /\ UNCHANGED <<companies, companyUsers, fleet, wizard, materials, users, employees, projects, tasks, now, reqs,
                     taskIdIndex, hist>>

\* the materials stored at most
MaxMaterials == 1
MaterialBodies == {[name |-> <<"m">>]}
MaterialUpdates == {[name |-> <<"n">>]}
MaterialErrors == {NoError, SchemaRejection, ConnectionLost}

\* POST /api/materials; ids are generated up to MaxMaterials
CreateMaterial ==
  /\ NextMaterialId(materials) <= MaxMaterials
  /\ \E body \in MaterialBodies, thrown \in MaterialErrors :
       \E r \in {createMaterial(materials, body, thrown)} :
         /\ materials' = r.store
         /\ res' = Replied("createMaterial", 0, body, thrown, r.status, r.body)
  /\ UNCHANGED <<companies, companyUsers, fleet, wizard, users, employees, projects, tasks, now, reqs, taskIdIndex, hist>>

\* GET /api/materials/:id
GetMaterial ==
  /\ \E id \in ParamIds, thrown \in {NoError, ConnectionLost} :
       \E r \in {getMaterial(materials, id, thrown)} :
         res' = Replied("getMaterial", id, NoData, thrown, r.status, r.body)
  /\ UNCHANGED <<companies, companyUsers, fleet, wizard, materials, users, employees, projects, tasks, now, reqs,
                 taskIdIndex, hist>>

\* PUT /api/materials/:id
UpdateMaterial ==
  /\ \E id \in ParamIds, body \in MaterialUpdates, thrown \in MaterialErrors :
       \E r \in {updateMaterial(materials, id, body, thrown)} :
         /\ materials' = r.store
         /\ res' = Replied("updateMaterial", id, body, thrown, r.status, r.body)
  /\ UNCHANGED <<companies, companyUsers, fleet, wizard, users, employees, projects, tasks, now, reqs, taskIdIndex, hist>>

\* DELETE /api/materials/:id
DeleteMaterial ==
  /\ \E id \in ParamIds, thrown \in {NoError, ConnectionLost} :
       \E r \in {deleteMaterial(materials, id, thrown)} :
         /\ materials' = r.store
         /\ res' = Replied("deleteMaterial", id, NoData, thrown, r.status, r.body)
  /\ UNCHANGED <<companies, companyUsers, fleet, wizard, users, employees, projects, tasks, now, reqs, taskIdIndex, hist>>

\* every collection with one document, no material
InitFault ==
  /\ companies = StoredCompanies
  /\ companyUsers = {}
  /\ fleet = NoFleet
  /\ wizard = NoWizard
  /\ materials = {}
  /\ users = {SeedUser}
  /\ employees = {SeedEmployee}
  /\ projects = {SeedProject}
  /\ tasks = {SeedTask}
  /\ now = 1
  /\ res = Replied("none", 0, NoData, NoError, 0, NoData)
  /\ reqs = <<>>
  /\ taskIdIndex = TRUE
  /\ hist = NoHistory

NextFault ==
  \/ StorageFailure
  \/ CreateMaterial \/ GetMaterial \/ UpdateMaterial \/ DeleteMaterial

SpecFault == InitFault /\ [][NextFault]_vars

-----------------------------------------------------------------------------
(* Claims about the answers to exceptions and the shape of error bodies *)

\* the body of a reply says success: false and carries a message
FailureBody(json) ==
  /\ "success" \in DOMAIN json
  /\ json.success = FALSE
  /\ "message" \in DOMAIN json

\* an exception that is neither a validation error nor a duplicate key
Unrecognised(error) ==
  /\ error # NoError
  /\ error.name # "ValidationError"
  /\ error.code # 11000

\* C18: in every handler, the update handlers of employees, users and
\* projects included, an exception that is neither a schema validation error
\* nor a duplicate-key error is answered with status 500 and success: false.
C18_OtherExceptionsAnswered500 ==
  (res.op \in EntityHandlers /\ Unrecognised(res.error)) =>
    (res.status = 500 /\ FailureBody(res.json))

\* C19: when the storage layer rejects the write of a create or update
\* handler with a duplicate-key error (code 11000), the response is 409 with
\* success: false and a message, for every entity's create and update handler.
C19_DuplicateKeyAnswered409 ==
  (res.op \in CreateHandlers \cup UpdateHandlers /\ res.error.code = 11000) =>
    (res.status = 409 /\ FailureBody(res.json))

\* C20: every response with status 400, 404, 409 or 500 of an entity route
\* handler (employees, users, projects, tasks, materials) has a JSON body
\* with success: false and a message field.
C20_ErrorBodiesUniform ==
  res.status \in {400, 404, 409, 500} => FailureBody(res.json)

-----------------------------------------------------------------------------
(* The user routes over an empty User collection, with a running clock *)

\* emails in lower and in upper case, users active by default or inactive
UserCaseBodies ==
  { Merge([id |-> i, email |-> e, name |-> <<"u">>], x) :
      i \in IdInputs, e \in {seedEmail, toUpperCase(seedEmail), otherEmail},
      x \in {NoData, [isActive |-> BoolV(FALSE)]} }

\* updates of the email, of the name and of the active flag
UserCaseUpdates ==
     { [email |-> e] : e \in {seedEmail, toUpperCase(seedEmail), otherEmail} }
  \cup { [name |-> <<"v">>] }
  \cup { [isActive |-> BoolV(b)] : b \in BOOLEAN }

DeleteUser ==
  \E id \in ParamIds :
    \E r \in {deleteUser(users, id)} :
        /\ users' = r.store
        /\ res' = Respond("deleteUser", id, NoData, r)
        /\ UNCHANGED <<companies, companyUsers, fleet, wizard, materials, employees, projects, tasks, now, reqs,
                       taskIdIndex, hist>>

\* the server clock advances
Tick ==
  /\ now < MaxTime
  /\ now' = now + 1
  /\ UNCHANGED <<companies, companyUsers, fleet, wizard, materials, users, employees, projects, tasks, res, reqs,
                 taskIdIndex, hist>>

InitUser ==
  /\ companies = StoredCompanies
  /\ companyUsers = {}
  /\ fleet = NoFleet
  /\ wizard = NoWizard
  /\ materials = {}
  /\ users = {}
  /\ employees = {}
  /\ projects = {}
  /\ tasks = {}
  /\ now = 1
  /\ res = NoResponse
  /\ reqs = <<>>
  /\ taskIdIndex = TRUE
  /\ hist = NoHistory

NextUser ==
  \/ CreateUser(UserCaseBodies) \/ UpdateUser(UserCaseUpdates) \/ DeleteUser
  \/ Tick

SpecUser == InitUser /\ [][NextUser]_vars

\* C21: handled one at a time, createUser, updateUser and deleteUser never
\* leave two stored users whose emails are equal when letter case is ignored;
\* a create, or an update of another user, whose email differs only in case
\* from a stored user's email is answered 409 and changes nothing.
C21_EmailsUniqueIgnoringCase ==
  [][ /\ \A u, v \in users' :
           toLowerCase(u.email) = toLowerCase(v.email) => u = v
      /\ (/\ now' = now
          /\ res'.op = "createUser"
          /\ "email" \in DOMAIN res'.body
          /\ \E u \in users : toLowerCase(u.email) = toLowerCase(res'.body.email))
         => (res'.status = 409 /\ users' = users)
      /\ (/\ now' = now
          /\ res'.op = "updateUser"
          /\ "email" \in DOMAIN res'.body
          /\ \E u \in users : u.id = res'.id
          /\ \E u \in users : /\ u.id # res'.id
                              /\ toLowerCase(u.email) = toLowerCase(res'.body.email))
         => (res'.status = 409 /\ users' = users) ]_vars

\* a create in upper case of an email stored in lower case, answered 409
C21_Witness ==
  /\ res.op = "createUser"
  /\ res.status = 409
  /\ res.body.email = toUpperCase(seedEmail)
  /\ \E u \in users : u.email = seedEmail /\ u.id # NumOf(res.body, "id")

\* C24: PUT /api/users/:id with a body that does not mention isActive leaves
\* the stored user's isActive, createdAt and metadata unchanged; renaming an
\* inactive user never reactivates that user.
C24_UpdateKeepsActiveFlag ==
  [][ (/\ now' = now
       /\ res'.op = "updateUser"
       /\ res'.status = 200
       /\ "isActive" \notin DOMAIN res'.body)
      => \A u \in users :
           u.id = res'.id =>
             \E v \in users' : /\ v.id = u.id
                               /\ v.isActive = u.isActive
                               /\ v.createdAt = u.createdAt
                               /\ v.metadata = u.metadata ]_vars

\* C28: after any sequence of createUser and updateUser requests, every
\* stored user has metadata.accountStatus 'ACTIVE' exactly when its isActive
\* is true and 'INACTIVE' exactly when it is false.
C28_AccountStatusFollowsFlag ==
  \A u \in users :
    /\ u.metadata.accountStatus = ACTIVE <=> u.isActive
    /\ u.metadata.accountStatus = INACTIVE <=> ~u.isActive

\* an update has made a user inactive, after the user was created
C28_Witness ==
  /\ res.op = "updateUser"
  /\ res.status = 200
  /\ res.body = [isActive |-> BoolV(FALSE)]
  /\ now = MaxTime
  /\ \E u \in users : u.id = res.id /\ ~u.isActive /\ u.updatedAt = MaxTime

-----------------------------------------------------------------------------
(* taskController.js: GET /api/tasks, the list with filters and pages *)

DefaultLimit == 1000

\* parseInt(value) || fallback, for a query value that may be missing
IntOr(q, f, fallback) ==
  IF ~Has(q, f) THEN fallback
  ELSE LET v == parseInt(q[f])
       IN  IF IsNum(v) /\ v.num # 0 THEN v.num ELSE fallback

\* the filter with the status as the query string gives it
TaskQueryKeepCase(q) ==
  LET q1 == IF Truthy(q, "companyId") THEN [companyId |-> parseInt(q.companyId)] ELSE NoData
      q2 == IF Truthy(q, "projectId") THEN [projectId |-> parseInt(q.projectId)] ELSE NoData
      q3 == IF TruthyS(q, "status") THEN [status |-> q.status] ELSE NoData
      q4 == IF TruthyS(q, "taskType") THEN [taskType |-> toUpperCase(q.taskType)] ELSE NoData
      q5 == IF Has(q, "startDate") /\ Has(q, "endDate")
            THEN [startDate |-> [gte |-> q.startDate, lte |-> q.endDate]] ELSE NoData
  IN  Merge(Merge(Merge(q1, q2), Merge(q3, q4)), q5)

\* the filter getAllTasks builds from the query string
TaskQuery(q) ==
  LET q1 == IF Truthy(q, "companyId") THEN [companyId |-> parseInt(q.companyId)] ELSE NoData
      q2 == IF Truthy(q, "projectId") THEN [projectId |-> parseInt(q.projectId)] ELSE NoData
      q3 == IF TruthyS(q, "status") THEN [status |-> toUpperCase(q.status)] ELSE NoData
      q4 == IF TruthyS(q, "taskType") THEN [taskType |-> toUpperCase(q.taskType)] ELSE NoData
      q5 == IF Has(q, "startDate") /\ Has(q, "endDate")
            THEN [startDate |-> [gte |-> q.startDate, lte |-> q.endDate]] ELSE NoData
  IN  Merge(Merge(Merge(q1, q2), Merge(q3, q4)), q5)

\* the filter cannot be cast: a number that is NaN, a date that is invalid
QueryCastError(query) ==
  \/ \E f \in {"companyId", "projectId"} \cap DOMAIN query : ~IsNum(query[f])
  \/ /\ Has(query, "startDate")
     /\ (InvalidDate(query.startDate.gte) \/ InvalidDate(query.startDate.lte))

\* Task.find(query): the task matches every condition of the filter
TaskMatches(k, query) ==
  /\ \A f \in {"companyId", "projectId"} \cap DOMAIN query : k[f] = query[f].num
  /\ \A f \in {"status", "taskType"} \cap DOMAIN query : k[f] = query[f]
  /\ Has(query, "startDate") =>
       /\ k.startDate # 0
       /\ k.startDate >= DateTime(query.startDate.gte)
       /\ k.startDate <= DateTime(query.startDate.lte)

\* sort({ createdAt: -1, id: -1 })
SortsBefore(a, b) ==
  \/ a.createdAt > b.createdAt
  \/ a.createdAt = b.createdAt /\ a.id > b.id

RECURSIVE SortTasks(_)
SortTasks(S) ==
  IF S = {} THEN <<>>
  ELSE LET first == CHOOSE a \in S : \A b \in S : ~SortsBefore(b, a)
       IN  <<first>> \o SortTasks(S \ {first})

\* skip(skip).limit(limit)
SkipLimit(seq, skip, limit) ==
  SubSeq(seq, skip + 1, IF skip + limit < Len(seq) THEN skip + limit ELSE Len(seq))

\* the task with the names of its company and its project
TaskWithDetails(comps, projs, k) ==
  Merge(k, [companyName |-> IF CompanyExists(comps, k.companyId)
                            THEN ErrN("name of company", k.companyId)
                            ELSE Err("Unknown Company"),
            projectName |-> IF ProjectExists(projs, k.projectId)
                            THEN ErrN("name of project", k.projectId)
                            ELSE Err("Unknown Project")])

\* Math.ceil(total / limit)
Pages(total, limit) == (total + limit - 1) \div limit

\* GET /api/tasks
getAllTasks(comps, projs, tsks, q) ==
  LET page == IntOr(q, "page", 1)
      limit == IntOr(q, "limit", DefaultLimit)
      skip == (page - 1) * limit
      query == TaskQuery(q)
      found == {k \in tsks : TaskMatches(k, query)}
      listed == SkipLimit(SortTasks(found), skip, limit)
  IN  IF QueryCastError(query)
      THEN Outcome(500, <<Err("Error fetching tasks")>>, NoData, tsks, TRUE, TRUE, FALSE)
      ELSE Outcome(200, <<>>,
                   [data |-> [i \in 1..Len(listed) |-> TaskWithDetails(comps, projs, listed[i])],
                    pagination |-> [page |-> page, limit |-> limit,
                                    total |-> Cardinality(found),
                                    pages |-> Pages(Cardinality(found), limit)]],
                   tsks, TRUE, TRUE, FALSE)

-----------------------------------------------------------------------------
(* The task list over tasks created one at a time, with a running clock *)

\* tasks planned or completed, of two types, with or without a start date
TaskListBodies ==
  { Merge([companyId |-> NumV(1), projectId |-> NumV(1), taskName |-> <<"t">>], x) :
      x \in { [taskType |-> WORK],
              [taskType |-> WORK, status |-> COMPLETED, startDate |-> DateStr(1)],
              [taskType |-> TOOL, startDate |-> DateStr(1)],
              [taskType |-> TOOL, status |-> COMPLETED] } }

\* the status of a query string: missing, empty, in lower, upper or mixed case
StatusQueries ==
  { NoData, [status |-> <<>>], [status |-> toLowerCase(PLANNED)], [status |-> PLANNED],
    [status |-> <<"P">> \o Tail(toLowerCase(PLANNED))], [status |-> toLowerCase(COMPLETED)] }

\* the rest of a query string: the other filters, the page and its size
OtherQueries ==
  { NoData,
    [taskType |-> toLowerCase(WORK)],
    [companyId |-> StrV(<<"2">>)],
    [companyId |-> StrV(<<"1">>), limit |-> StrV(<<"1">>)],
    [limit |-> StrV(<<"1">>)],
    [page |-> StrV(<<"2">>), limit |-> StrV(<<"1">>)],
    [page |-> StrV(<<"0">>)],
    [projectId |-> StrV(<<"x">>)],
    [startDate |-> DateStr(1), endDate |-> DateStr(2)],
    [startDate |-> BadDate, endDate |-> DateStr(1)] }

TaskListQueries == { Merge(s, o) : s \in StatusQueries, o \in OtherQueries }

\* GET /api/tasks?...
GetAllTasks ==
  \E q \in TaskListQueries :
    \E r \in {getAllTasks(companies, projects, tasks, q)} :
      /\ res' = Respond("getAllTasks", 0, q, r)
      /\ UNCHANGED <<companies, companyUsers, fleet, wizard, materials, users, employees, projects, tasks, now, reqs,
                     taskIdIndex, hist>>

InitTaskList ==
  /\ companies = StoredCompanies
  /\ companyUsers = {}
  /\ fleet = NoFleet
  /\ wizard = NoWizard
  /\ materials = {}
  /\ users = {}
  /\ employees = {}
  /\ projects = {SeedProject}
  /\ tasks = {}
  /\ now = 1
  /\ res = NoResponse
  /\ reqs = <<>>
  /\ taskIdIndex = TRUE
  /\ hist = NoHistory

NextTaskList == CreateTask(TaskListBodies) \/ GetAllTasks \/ Tick

SpecTaskList == InitTaskList /\ [][NextTaskList]_vars

\* the query without its status
WithoutStatus(q) == [f \in DOMAIN q \ {"status"} |-> q[f]]

\* the stored task an entry of the list shows
ListedTask(entry) == [f \in DOMAIN entry \ {"companyName", "projectName"} |-> entry[f]]

\* the tasks the list is asked for: the status in upper case, the other
\* filters as they are
AskedFor(q) ==
  { k \in tasks : /\ k.status = toUpperCase(q.status)
                  /\ TaskMatches(k, TaskQuery(WithoutStatus(q))) }

\* C22: GET /api/tasks with a status in any letter case filters by the
\* upper-cased value: the response lists exactly the tasks, within the
\* requested page, whose stored status is that value and that match the
\* other filters.
C22_StatusFilterIgnoresCase ==
  (res.op = "getAllTasks" /\ res.status = 200 /\ TruthyS(res.body, "status")) =>
    LET listed == res.data.data
        page == res.data.pagination.page
        limit == res.data.pagination.limit
        asked == AskedFor(res.body)
        skipped == (page - 1) * limit
        left == IF Cardinality(asked) > skipped THEN Cardinality(asked) - skipped ELSE 0
    IN  /\ \A i \in 1..Len(listed) : ListedTask(listed[i]) \in asked
        /\ \A i, j \in 1..Len(listed) : listed[i] = listed[j] => i = j
        /\ Len(listed) = IF left < limit THEN left ELSE limit
        /\ res.data.pagination.total = Cardinality(asked)
        \* the tasks before the page and after it are the ones left out
        /\ \A k \in asked :
             (\A i \in 1..Len(listed) : ListedTask(listed[i]) # k) =>
               \/ Cardinality({a \in asked : SortsBefore(a, k)}) < skipped
               \/ Cardinality({a \in asked : SortsBefore(a, k)}) >= skipped + limit

\* a query in lower case that lists a planned task and leaves a completed
\* one out
C22_Witness ==
  /\ res.op = "getAllTasks"
  /\ res.status = 200
  /\ res.body = [status |-> toLowerCase(PLANNED)]
  /\ Len(res.data.data) = 1
  /\ \E k \in tasks : k.status = COMPLETED

-----------------------------------------------------------------------------
(* Claims about the checks of updateEmployee *)

\* C23: PUT /api/employees/:id on an existing employee, with a body that
\* carries the userId of an existing User and no companyId, passes the
\* referential check and is applied, whether or not a Company whose id equals
\* the employee's own id exists.
C23_UserOnlyUpdateApplied ==
  [][ (/\ res'.op = "updateEmployee"
       /\ DOMAIN res'.body = {"userId"}
       /\ UserExists(users, NumOf(res'.body, "userId"))
       /\ \E e \in employees : e.id = res'.id)
      => (/\ res'.status = 200
          /\ \E e \in employees' : e.id = res'.id /\ e.userId = NumOf(res'.body, "userId"))
    ]_vars

\* C29: the status of a failed employee request follows one precedence:
\* updateEmployee on an id with no stored employee answers 404 whatever the
\* referential and uniqueness checks found; otherwise a failed referential
\* check answers 400 also when the uniqueness check failed too; 409 is
\* answered only when the referential check passed.
C29_EmployeeStatusPrecedence ==
  [][ res'.op \in {"createEmployee", "updateEmployee"} =>
        LET missing == /\ res'.op = "updateEmployee"
                       /\ res'.id > 0
                       /\ ~\E e \in employees : e.id = res'.id
        IN  /\ missing => res'.status = 404
            /\ (~missing /\ ~res'.refOk) => res'.status = 400
            /\ res'.status = 409 => res'.refOk ]_vars

\* an update of a stored employee that failed both checks, answered 400
C29_Witness ==
  /\ res.op = "updateEmployee"
  /\ \E e \in employees : e.id = res.id
  /\ ~res.refOk
  /\ ~res.uniqOk
  /\ res.status = 400

-----------------------------------------------------------------------------
(* employeeController.js: GET /api/employees/company/:companyId.  No handler
   writes the CompanyUser collection: its documents are what the database
   holds when the server starts *)

\* CompanyUser.find({ companyId, role: 'driver' }), mapped to the user ids
CompanyDriverIds(cus, companyId) ==
  {cu.userId : cu \in {d \in cus : d.companyId = companyId /\ d.role = "driver"}}

\* the lists of the set in the order of sort({ createdAt: -1 }); documents
\* with the same createdAt come in any order
SortedByCreatedAt(S) ==
  { seq \in [1..Cardinality(S) -> S] :
      /\ \A i, j \in DOMAIN seq : seq[i] = seq[j] => i = j
      /\ \A i, j \in DOMAIN seq : i < j => seq[i].createdAt >= seq[j].createdAt }

\* the selected fields of an employee, transformed: companyId is not among
\* the fields selected
ListedEmployee(usrs, employee) ==
  LET t == transformEmployeeResponse(employee, getUserEmailById(usrs, employee.userId))
  IN  [f \in DOMAIN t \ {"companyId"} |-> t[f]]

\* the handler, for the order the query returns the employees in
getEmployeesByCompany(cus, usrs, emps, companyId, found) ==
  LET userIds == CompanyDriverIds(cus, companyId)
  IN  IF companyId <= 0
      THEN Outcome(400, <<Err("Invalid company ID. Must be a positive integer.")>>, NoData,
                   emps, TRUE, TRUE, FALSE)
      ELSE IF userIds = {}
      THEN Outcome(200, <<>>, [count |-> 0, companyId |-> companyId, data |-> <<>>],
                   emps, TRUE, TRUE, FALSE)
      ELSE Outcome(200, <<>>,
                   [count |-> Len(found), companyId |-> companyId,
                    data |-> [i \in 1..Len(found) |-> ListedEmployee(usrs, found[i])]],
                   emps, TRUE, TRUE, FALSE)

\* GET /api/employees/company/:companyId
GetEmployeesByCompany ==
  \E id \in ParamIds :
    \E found \in SortedByCreatedAt({e \in employees :
                                     e.userId \in CompanyDriverIds(companyUsers, id)}) :
      \E r \in {getEmployeesByCompany(companyUsers, users, employees, id, found)} :
        /\ res' = Respond("getEmployeesByCompany", id, NoData, r)
        /\ UNCHANGED <<companies, companyUsers, fleet, wizard, materials, users, employees, projects, tasks,
                       now, reqs, taskIdIndex, hist>>

\* employees of either company, with or without a user
CompanyEmployeeBodies ==
  { Merge([id |-> NumV(i), companyId |-> c, employeeCode |-> <<UpperChars[i]>>,
           fullName |-> <<"a">>], x) :
      i \in Ids, c \in IdInputs, x \in {NoData, [userId |-> NumV(1)]} }

\* the documents the CompanyUser collection may hold
CompanyUserDocuments ==
  { [companyId |-> c, userId |-> 1, role |-> r] : c \in Ids, r \in {"driver", "worker"} }

InitCompany ==
  /\ companies = Ids
  /\ companyUsers \in SUBSET CompanyUserDocuments
  /\ fleet = NoFleet
  /\ wizard = NoWizard
  /\ materials = {}
  /\ users = {SeedUser}
  /\ employees = {}
  /\ projects = {}
  /\ tasks = {}
  /\ now = 1
  /\ res = NoResponse
  /\ reqs = <<>>
  /\ taskIdIndex = TRUE
  /\ hist = NoHistory

NextCompany == CreateEmployee(CompanyEmployeeBodies) \/ GetEmployeesByCompany

SpecCompany == InitCompany /\ [][NextCompany]_vars

\* C25: GET /api/employees/company/:companyId returns only employees whose
\* own companyId equals the requested company, also when the user of an
\* employee of another company holds the 'driver' role in the requested
\* company.
C25_OnlyEmployeesOfCompany ==
  (res.op = "getEmployeesByCompany" /\ res.status = 200) =>
    \A i \in 1..Len(res.data.data) :
      \A e \in employees : e.id = res.data.data[i].id => e.companyId = res.id

-----------------------------------------------------------------------------
(* generateProjectMetadata, applied to project data at every clock value *)

\* new Date(v) of a truthy date value is a valid date
ValidDate(d, f) == TruthyD(d, f) /\ ~InvalidDate(d[f])

\* Math.round(100 * elapsed / total) for positive elapsed and total: the
\* nearest integer, a half rounded up
RoundedPercent(elapsed, total) == (200 * elapsed + total) \div (2 * total)

\* MinOf(a, b) is Math.min(a, b)
MinOf(a, b) == IF a <= b THEN a ELSE b

\* n / d < 0.2 as JavaScript divides: a zero d gives -Infinity for a
\* negative n, and Infinity or NaN (both not below 0.2) otherwise
BelowFifth(n, d) ==
  IF d > 0 THEN 5 * n < d
  ELSE IF d < 0 THEN 5 * n > d
  ELSE n < 0

\* the metadata the function starts from
DefaultProjectMetadata ==
  [progress |-> 0, health |-> "HEALTHY", timelineStatus |-> "ON_TRACK",
   financialStatus |-> "WITHIN_BUDGET", risks |-> <<>>]

\* the progress and the timeline status of two valid dates at currentDate
TimelineMetadata(startDate, endDate, currentDate) ==
  LET totalDuration == endDate - startDate
      elapsedDuration == currentDate - startDate
      progress == IF totalDuration > 0 /\ elapsedDuration > 0
                  THEN MinOf(RoundedPercent(elapsedDuration, totalDuration), 100)
                  ELSE 0
      m == [DefaultProjectMetadata EXCEPT !.progress = progress]
  IN  IF currentDate > endDate /\ progress < 100
      THEN [m EXCEPT !.timelineStatus = "DELAYED", !.health = "AT_RISK",
                     !.risks = <<"Project timeline exceeded">>]
      ELSE IF BelowFifth(endDate - currentDate, totalDuration) /\ progress < 80
      THEN [m EXCEPT !.timelineStatus = "AT_RISK", !.health = "NEEDS_ATTENTION",
                     !.risks = <<"Approaching deadline with low progress">>]
      ELSE m

\* generateProjectMetadata(projectData) when new Date() is currentDate; an
\* invalid date makes every comparison false
generateProjectMetadata(projectData, currentDate) ==
  LET timeline ==
        IF TruthyD(projectData, "startDate") /\ TruthyD(projectData, "endDate")
        THEN IF ValidDate(projectData, "startDate") /\ ValidDate(projectData, "endDate")
             THEN TimelineMetadata(DateTime(projectData.startDate),
                                   DateTime(projectData.endDate), currentDate)
             ELSE DefaultProjectMetadata
        ELSE DefaultProjectMetadata
  IN  IF Has(projectData, "status") /\ projectData.status = ON_HOLD
      THEN [timeline EXCEPT !.health = "ON_HOLD"]
      ELSE IF Has(projectData, "status") /\ projectData.status = CANCELLED
      THEN [timeline EXCEPT !.health = "CANCELLED"]
      ELSE timeline

\* the times of project dates: the clock's values and one later time
ProjectTimes == 0..(MaxTime + 1)

\* project data as normalizeProjectData leaves it (a date, null or no date, a
\* status) and with a date that is invalid
ProjectMetadataInputs ==
  { Merge([status |-> s], Merge(sd, ed)) :
      s \in {PLANNING, ACTIVE, ON_HOLD, COMPLETED, CANCELLED},
      sd \in Optional("startDate", {DateV(t) : t \in ProjectTimes} \cup {NullV, BadDate}),
      ed \in Optional("endDate", {DateV(t) : t \in ProjectTimes} \cup {NullV, BadDate}) }

\* one call of the function; the response records the clock of the call
GenerateProjectMetadata ==
  \E projectData \in ProjectMetadataInputs :
    /\ res' = [op |-> "generateProjectMetadata", body |-> projectData, at |-> now,
               data |-> generateProjectMetadata(projectData, now)]
    /\ UNCHANGED <<companies, companyUsers, fleet, wizard, materials, users, employees, projects, tasks,
                   now, reqs, taskIdIndex, hist>>

InitMetadata ==
  /\ companies = StoredCompanies
  /\ companyUsers = {}
  /\ fleet = NoFleet
  /\ wizard = NoWizard
  /\ materials = {}
  /\ users = {}
  /\ employees = {}
  /\ projects = {}
  /\ tasks = {}
  /\ now = 0
  /\ res = NoResponse
  /\ reqs = <<>>
  /\ taskIdIndex = TRUE
  /\ hist = NoHistory

NextMetadata == GenerateProjectMetadata \/ Tick

SpecMetadata == InitMetadata /\ [][NextMetadata]_vars

\* the project data of the last call has a startDate before its endDate and
\* an endDate before the clock of the call
EndedInPast ==
  /\ res.op = "generateProjectMetadata"
  /\ ValidDate(res.body, "startDate") /\ ValidDate(res.body, "endDate")
  /\ DateTime(res.body.startDate) < DateTime(res.body.endDate)
  /\ DateTime(res.body.endDate) < res.at

\* C27: a project whose startDate is before its endDate and whose endDate is
\* in the past gets timelineStatus 'DELAYED' with the risk 'Project timeline
\* exceeded', and health 'AT_RISK' unless its status is ON_HOLD or CANCELLED;
\* the progress returned is always an integer from 0 to 100.
C27_PastEndIsDelayed ==
  res.op = "generateProjectMetadata" =>
    /\ res.data.progress \in 0..100
    /\ EndedInPast =>
         /\ res.data.timelineStatus = "DELAYED"
         /\ \E i \in 1..Len(res.data.risks) : res.data.risks[i] = "Project timeline exceeded"
         /\ res.body.status \notin {ON_HOLD, CANCELLED} => res.data.health = "AT_RISK"

-----------------------------------------------------------------------------
(* JsCreateTaskPage: the transport-schedule wizard and its submission *)

\* the clicks whose continuation may be pending at once, and the submissions
\* of one visit of the page
MaxPending == 2
MaxSubmissions == 2

\* the employees that can be selected as passengers
Passengers == 1..MaxId

\* steps.length
StepCount == 4

getStepFields(step) ==
  IF step = 0 THEN {"companyId", "taskDate", "plannedPickupTime", "plannedDropTime"}
  ELSE IF step = 1 THEN {"vehicleId"}
  ELSE {}

\* what form.validateFields(fields) can settle to: with no field to validate
\* it resolves, otherwise the values of the form decide
ValidationOutcomes(fields) == IF fields = {} THEN {TRUE} ELSE BOOLEAN

\* the step after the one shown when the validation settles
SteppedFromShown(clicked, shown) == shown + 1

\* setCurrentStep(currentStep + 1) of nextStep: the step the closure of the
\* click holds, whatever the step shown when the validation settles
SteppedTo(clicked, shown) == clicked + 1

\* the Next button, shown before the last step: nextStep up to its await
ClickNext ==
  /\ wizard.currentStep < StepCount - 1
  /\ Cardinality(wizard.nextClicks) < MaxPending
  /\ \E passed \in ValidationOutcomes(getStepFields(wizard.currentStep)) :
       wizard' = [wizard EXCEPT !.nextClicks =
                    @ \cup {[step |-> wizard.currentStep, passed |-> passed]}]
  /\ UNCHANGED <<companies, companyUsers, fleet, materials, users, employees, projects,
                 tasks, now, res, reqs, taskIdIndex, hist>>

\* nextStep after its await: the step moves when the fields validated
NextSettles ==
  \E click \in wizard.nextClicks :
    /\ wizard' = [wizard EXCEPT
                    !.nextClicks = @ \ {click},
                    !.currentStep = IF click.passed
                                    THEN SteppedTo(click.step, wizard.currentStep) ELSE @]
    /\ UNCHANGED <<companies, companyUsers, fleet, materials, users, employees, projects,
                   tasks, now, res, reqs, taskIdIndex, hist>>

\* the Previous button, disabled on the first step: prevStep
ClickPrevious ==
  /\ wizard.currentStep # 0
  /\ wizard' = [wizard EXCEPT !.currentStep = @ - 1]
  /\ UNCHANGED <<companies, companyUsers, fleet, materials, users, employees, projects,
                 tasks, now, res, reqs, taskIdIndex, hist>>

\* onPassengersChange of the passenger step: an employee is selected or not
SelectPassengers ==
  /\ wizard.currentStep = StepCount - 1
  /\ \E e \in Passengers :
       wizard' = [wizard EXCEPT !.selectedPassengers =
                    IF e \in @ THEN @ \ {e} ELSE @ \cup {e}]
  /\ UNCHANGED <<companies, companyUsers, fleet, materials, users, employees, projects,
                 tasks, now, res, reqs, taskIdIndex, hist>>

\* the end of handleSubmit: the message shown and setLoading(false)
Finished(w, text) ==
  [w EXCEPT !.loading = FALSE, !.submit = Idle,
            !.message = [text |-> text, n |-> w.submit.n,
                         passengers |-> w.submit.passengers]]

\* the end of the try block of handleSubmit: the success message and the timer
Succeeded(w) ==
  [Finished(w, "Transport Schedule Created Successfully!") EXCEPT
     !.timers = @ \cup {w.submit.n}]

\* the Create button of the last step, which takes no click while loading:
\* handleSubmit up to its first await
ClickSubmit ==
  /\ wizard.currentStep = StepCount - 1
  /\ ~wizard.loading
  /\ wizard.submitted < MaxSubmissions
  /\ wizard' = [wizard EXCEPT
                  !.loading = TRUE,
                  !.submitted = @ + 1,
                  !.submit = [pc |-> "validating", n |-> wizard.submitted + 1,
                              passengers |-> wizard.selectedPassengers]]
  /\ UNCHANGED <<companies, companyUsers, fleet, materials, users, employees, projects,
                 tasks, now, res, reqs, taskIdIndex, hist>>

\* form.validateFields() of handleSubmit settles: the request for the fleet
\* task is sent, or the catch block reports the failure
SubmitValidated ==
  /\ wizard.submit.pc = "validating"
  /\ \E passed \in BOOLEAN :
       wizard' = IF passed THEN [wizard EXCEPT !.submit.pc = "creating"]
                 ELSE Finished(wizard, "Creation Failed")
  /\ UNCHANGED <<companies, companyUsers, fleet, materials, users, employees, projects,
                 tasks, now, res, reqs, taskIdIndex, hist>>

\* the answers of POST /api/fleet-tasks: the task is stored and the answer has
\* success true, or nothing is stored and the request throws or the answer
\* has success false
FleetTaskAnswers == {"created", "rejected", "unsuccessful"}

\* the requests createFleetTaskPassengers sends at once, one for a passenger
PassengerRequests(n, passengerIds) == {[n |-> n, employee |-> e] : e \in passengerIds}

\* fleetTaskService.createFleetTask settles
FleetTaskSettles ==
  /\ wizard.submit.pc = "creating"
  /\ \E answer \in FleetTaskAnswers :
       IF answer = "rejected"
       THEN wizard' = Finished(wizard, "Creation Failed") /\ fleet' = fleet
       ELSE IF answer = "unsuccessful"
       THEN wizard' = Finished(wizard, wizard.message.text) /\ fleet' = fleet
       ELSE IF wizard.submit.passengers = {}
       THEN /\ wizard' = Succeeded(wizard)
            /\ fleet' = [fleet EXCEPT !.tasks = @ \cup {wizard.submit.n}]
       ELSE /\ wizard' = [wizard EXCEPT !.submit.pc = "passengers"]
            /\ fleet' = [fleet EXCEPT
                           !.tasks = @ \cup {wizard.submit.n},
                           !.inflight = @ \cup PassengerRequests(wizard.submit.n,
                                                                 wizard.submit.passengers)]
  /\ UNCHANGED <<companies, companyUsers, materials, users, employees, projects,
                 tasks, now, res, reqs, taskIdIndex, hist>>

\* one request of the batch settles: the record is stored or the request
\* throws.  Promise.all rejects on the first request that throws and resolves
\* when the last one resolves; a submission that has ended ignores the rest.
PassengerSettles ==
  \E request \in fleet.inflight : \E stored \in BOOLEAN :
    LET awaited == wizard.submit.pc = "passengers" /\ wizard.submit.n = request.n
        last == \A other \in fleet.inflight : other.n = request.n => other = request
    IN  /\ fleet' = [fleet EXCEPT
                       !.inflight = @ \ {request},
                       !.passengers = IF stored THEN @ \cup {request} ELSE @]
        /\ wizard' = IF ~awaited THEN wizard
                     ELSE IF ~stored THEN Finished(wizard, "Creation Failed")
                     ELSE IF last THEN Succeeded(wizard)
                     ELSE wizard
        /\ UNCHANGED <<companies, companyUsers, materials, users, employees, projects,
                       tasks, now, res, reqs, taskIdIndex, hist>>

\* the timer of a successful submission fires: the form is reset
ResetForm ==
  \E n \in wizard.timers :
    /\ wizard' = [wizard EXCEPT !.timers = @ \ {n}, !.selectedPassengers = {},
                                !.currentStep = 0]
    /\ UNCHANGED <<companies, companyUsers, fleet, materials, users, employees, projects,
                   tasks, now, res, reqs, taskIdIndex, hist>>

InitWizard ==
  /\ companies = StoredCompanies
  /\ companyUsers = {}
  /\ fleet = NoFleet
  /\ wizard = NoWizard
  /\ materials = {}
  /\ users = {}
  /\ employees = {}
  /\ projects = {}
  /\ tasks = {}
  /\ now = 1
  /\ res = NoResponse
  /\ reqs = <<>>
  /\ taskIdIndex = TRUE
  /\ hist = NoHistory

NextWizard ==
  \/ ClickNext
  \/ NextSettles
  \/ ClickPrevious
  \/ SelectPassengers
  \/ ClickSubmit
  \/ SubmitValidated
  \/ FleetTaskSettles
  \/ PassengerSettles
  \/ ResetForm

SpecWizard == InitWizard /\ [][NextWizard]_vars

\* the records a submission has left in the database
LeftPersisted(n) ==
  (IF n \in fleet.tasks THEN {[n |-> n]} ELSE {}) \cup {p \in fleet.passengers : p.n = n}

\* C26: creating a transport schedule is all-or-nothing: when handleSubmit
\* has reported 'Creation Failed', neither the fleet task nor any passenger
\* record of that submission is persisted, and when it has reported success
\* the fleet task and one passenger record for every selected passenger
\* exist.
C26_SubmissionAllOrNothing ==
  /\ wizard.message.text = "Creation Failed" => LeftPersisted(wizard.message.n) = {}
  /\ wizard.message.text = "Transport Schedule Created Successfully!" =>
       /\ wizard.message.n \in fleet.tasks
       /\ PassengerRequests(wizard.message.n, wizard.message.passengers)
            \subseteq fleet.passengers


\* C30: under any interleaving of Next, Previous and Submit clicks with the
\* pending validations, currentStep stays in 0..3, it increases only when the
\* validation of the fields of the step a Next click was made on has passed
\* (to the step after that one), and when handleSubmit finishes, with a
\* success or with a failure, loading is false.
C30_StepInRangeAndLoadingReset ==
  /\ [](wizard.currentStep \in 0..(StepCount - 1))
  /\ [][ /\ wizard'.currentStep > wizard.currentStep =>
              \E click \in wizard.nextClicks \ wizard'.nextClicks :
                 /\ click.passed
                 /\ click.step \in 0..(StepCount - 2)
                 /\ wizard'.currentStep = click.step + 1
         /\ (wizard.submit.pc # "idle" /\ wizard'.submit.pc = "idle") => ~wizard'.loading
       ]_vars

\* the last step was reached while a failed validation of an earlier step was
\* still pending, and a submission has ended with a failure
C30_Witness ==
  /\ wizard.currentStep = StepCount - 1
  /\ wizard.nextClicks # {}
  /\ wizard.message.text = "Creation Failed"
  /\ wizard.submit.pc = "idle" /\ ~wizard.loading

====
